---------------------------- MODULE Spec2Model ----------------------------
(***************************************************************************)
(* Blueprint auto-annotator: the detection merge of the YOLO inference     *)
(* handler (backend/lambda-room-detection-v2/app/yolo_inference.py) and    *)
(* the wall rasterizer and morphological cleaner of the geometric room     *)
(* converters (backend/lambda-geometric-conversion-v1/app/geometric.py,    *)
(* backend/lambda-room-detection/app/geometric.py).                        *)
(*                                                                         *)
(* Boxes are <<x1, y1, x2, y2>> in pixels.  Python floats are IEEE-754     *)
(* binary floats rounded to nearest, ties to even; the model keeps the     *)
(* rounding rule and scales the precision down to MantBits significant     *)
(* bits.  A float is held as its numerator over Scale.  The quotient       *)
(* intersection / union of two integer pixel areas is held as the exact    *)
(* pair <<intersection, union>>: for areas below 2^53 rounding the         *)
(* quotient changes neither its sign nor whether it equals 1.              *)
(***************************************************************************)
EXTENDS Integers, Sequences, FiniteSets, TLC

\* ------------------------------------------------------------------ bounds
MaxDets == 3    \* detections in a list
MaxCoord == 2   \* the largest coordinate of a detection box
MantBits == 4   \* significant bits of a float
MaxW == 2       \* the widest grid _draw_walls is run on alone
MaxH == 1       \* the tallest
MaxWalls == 2   \* walls in a list
GridW == 5      \* the width of the image the pipeline is run on
GridH == 4      \* its height
MaskW == 5      \* the width of the image rooms are extracted from
MaskH == 2      \* its height
MaxWallPixels == 2 \* the most pixels the walls of that image cover
MaxMinArea == 3 \* the larger of the two min_room_area values tried
\* the largest width and height of an image without walls, and the largest
\* min_room_area tried on it
MaxSide == 3
\* the requests to /api/convert-to-rooms in flight, and the image they send
MaxRequests == 2
ApiWidth == 8
ApiHeight == 2
\* the calls of WallDetector.detect on one instance
MaxCalls == 2
\* the invocations one Lambda container serves
MaxInvocations == 6
RoomW == 10     \* the width of the rooms whose outline is simplified
RoomH == 60     \* their height
MaxNotch == 3   \* the most pixels cut from the top of such a room's last column
BumpStep == 5   \* the rows between the places where a room's side has a bump
MaxBumps == 4   \* the number of those places
MaxVertices == 21 \* the largest vertex count a room is classified by

\* ------------------------------------------------------------------- state
\* The detection merger.
VARIABLES
    detections,         \* the list merge_nearby_detections is called with
    merge_threshold,    \* <<numerator, denominator>> of the IoU threshold
    sorted_detections,  \* detections by descending confidence
    merged,             \* the output list being built, then returned
    used,               \* indices of sorted_detections already consumed
    i,                  \* the outer loop's index (from 1)
    clusters,           \* history: per output entry, the indices folded into it
    pc,                 \* "idle" | "call" | "loop" | "done"
    call,               \* which call this is: "first" | "again" | "clamped"
    first               \* what the first call returned

mergeVars == <<detections, merge_threshold, sorted_detections, merged, used, i,
               clusters, pc, call, first>>

\* The overlap scorer, called alone.
VARIABLES
    arg1, arg2,   \* the arguments box1, box2 of _calculate_iou_pixels
    iou,          \* what it returned
    ipc           \* "idle" | "call" | "returned"

iouVars == <<arg1, arg2, iou, ipc>>

\* The rasterizer and the cleaner.  A grid is the set of its pixels <<x, y>>
\* that hold 255; every other pixel of Pixels(width, height) holds 0.
VARIABLES
    width, height,  \* the grid's shape is (height, width)
    walls,          \* the wall boxes convert / detect_rooms is called with
    kernel_size,    \* the converter's kernel is kernel_size x kernel_size ones
    grid,           \* the obstacle grid
    wall,           \* the bounding_box of the wall drawn last
    drawn,          \* how many walls _draw_walls has drawn
    before,         \* history: the grid before the wall drawn last
    covered,        \* history: the union of the clipped boxes of the walls drawn
    inverted,       \* 255 - grid
    cleaned,        \* what _apply_morphology returned
    gpc             \* "idle" | "new" | "create" | "draw" | "drawn" | "inverted"
                    \* | "cleaned" | "labelled" | "extract" | "returned" | "raised"

gridVars == <<width, height, walls, kernel_size, grid, wall, drawn, before, covered,
              inverted, cleaned, gpc>>

\* The room extractor.  variant tells the two near-identical classes apart:
\* "converter" is GeometricRoomConverter (lambda-geometric-conversion-v1),
\* "detector" is GeometricRoomDetector (lambda-room-detection).
VARIABLES
    variant,        \* "converter" | "detector"
    min_room_area,  \* the instance's min_room_area
    labels,         \* labels[l] is the set of pixels that carry label l >= 1
    stats,          \* stats[l] = [x, y, w, h, area] of label l >= 1
    label,          \* the loop variable of _extract_rooms
    rooms,          \* the list _extract_rooms builds, then returns
    run,            \* the calls made so far: 1 the first, 2 one with another image
                    \* after it, 3 the first repeated, 4 repeated after another
    earlier         \* history: what the first call returned

roomVars == <<variant, min_room_area, labels, stats, label, rooms, run, earlier>>

\* The shape classifier and the two confidence policies, called alone.
VARIABLES
    num_vertices,   \* len(vertices)
    area,           \* the component's pixel area
    shape_types,    \* per variant, the shape_type assigned
    confidences,    \* per variant, the confidence in hundredths
    cpc             \* "idle" | "call" | "returned"

classVars == <<num_vertices, area, shape_types, confidences, cpc>>

\* The services around the core.  An optional value is a sequence: <<>> is
\* None and <<v>> is the value v.
VARIABLES
    converter,             \* main.py's global converter: <<>> or <<its fields>>
    requests,              \* the requests to /api/convert-to-rooms in flight
    confidence_threshold,  \* WallDetector's self.confidence_threshold, hundredths
    threshold_arg,         \* the argument confidence_threshold of detect
    model_conf,            \* the conf= the model was called with last
    calls,                 \* how many calls of detect have returned
    wpc,                   \* "idle" | "call" | "returned"
    inference_handler,     \* _inference_handler: <<>> or <<[model |-> ...]>>
    event,                 \* the event of the invocation answered last
    response,              \* the response to it
    downloads,             \* how often the model was downloaded from S3
    loads,                 \* how often self.model was set
    invocations            \* how many invocations were answered

apiVars == <<converter, requests>>
wallVars == <<confidence_threshold, threshold_arg, model_conf, calls, wpc>>
lambdaVars == <<inference_handler, event, response, downloads, loads, invocations>>
serviceVars == <<apiVars, wallVars, lambdaVars>>

vars == <<mergeVars, iouVars, gridVars, roomVars, classVars, serviceVars>>
\* What the steps of one component leave alone.
core == <<mergeVars, iouVars, gridVars, roomVars, classVars>>
notMerge == <<iouVars, gridVars, roomVars, classVars, serviceVars>>
notIou == <<mergeVars, gridVars, roomVars, classVars, serviceVars>>
notGrid == <<mergeVars, iouVars, roomVars, classVars, serviceVars>>
notRoom == <<mergeVars, iouVars, classVars, serviceVars>>
notClass == <<mergeVars, iouVars, gridVars, roomVars, serviceVars>>
notApi == <<core, wallVars, lambdaVars>>
notWall == <<core, apiVars, lambdaVars>>
notLambda == <<core, apiVars, wallVars>>

\* ------------------------------------------------------------- arithmetic
Min(a, b) == IF a <= b THEN a ELSE b
Max(a, b) == IF a >= b THEN a ELSE b
\* min and max of a non-empty set of integers
SetMin(S) == CHOOSE x \in S : \A y \in S : x <= y
SetMax(S) == CHOOSE x \in S : \A y \in S : x >= y

RECURSIVE Pow2(_)
Pow2(n) == IF n = 0 THEN 1 ELSE 2 * Pow2(n - 1)

\* Smallest exponent below which the model's floats are evenly spaced.
FracBits == MantBits + 2
Scale == Pow2(FracBits)

\* The number of low bits a quotient q (in units of 1/Scale) loses to fit
\* MantBits significant bits.
RECURSIVE Shift(_, _)
Shift(q, s) == IF q < Pow2(MantBits + s) THEN s ELSE Shift(q, s + 1)

\* num / den (>= 0) rounded to the nearest float, ties to even: the result of
\* every float operation of the code.
Round(num, den) ==
    LET n  == num * Scale
        s  == Shift(n \div den, 0)
        d  == den * Pow2(s)
        fl == n \div d
        r2 == 2 * (n - fl * d)
        up == r2 > d \/ (r2 = d /\ fl % 2 = 1)
    IN  (IF up THEN fl + 1 ELSE fl) * Pow2(s)

\* float * int, float + float, float / int
FMul(a, k) == Round(a * k, Scale)
FAdd(a, b) == Round(a + b, Scale)
FDiv(a, k) == Round(a, Scale * k)

\* ------------------------------------------------------- overlap scorer
\* Faulty variant: "and" for "or", so a box that fails to overlap on one axis only goes on.
NoOverlapAnd(x1_i, y1_i, x2_i, y2_i) == x2_i <= x1_i /\ y2_i <= y1_i

\* x2_i <= x1_i or y2_i <= y1_i
NoOverlap(x1_i, y1_i, x2_i, y2_i) == x2_i <= x1_i \/ y2_i <= y1_i

\* intersection / union: the pair <<n, d>> is the quotient n / d, and a pair
\* with d = 0 is the ZeroDivisionError the division raises.
Quotient(n, d) == <<n, d>>
Raised(q) == q[2] = 0

\* Faulty variant: the union counts the intersection twice.
IouSumOfAreas(box1, box2) ==
    LET x1_i == Max(box1[1], box2[1])
        y1_i == Max(box1[2], box2[2])
        x2_i == Min(box1[3], box2[3])
        y2_i == Min(box1[4], box2[4])
        intersection == (x2_i - x1_i) * (y2_i - y1_i)
        area1 == (box1[3] - box1[1]) * (box1[4] - box1[2])
        area2 == (box2[3] - box2[1]) * (box2[4] - box2[2])
        union == area1 + area2
    IN  IF NoOverlap(x1_i, y1_i, x2_i, y2_i) THEN <<0, 1>>
        ELSE IF union = 0 THEN <<0, 1>>
        ELSE Quotient(intersection, union)

\* _calculate_iou_pixels; <<0, 1>> is the 0.0 of both early returns.
_calculate_iou_pixels(box1, box2) ==
    LET x1_i == Max(box1[1], box2[1])
        y1_i == Max(box1[2], box2[2])
        x2_i == Min(box1[3], box2[3])
        y2_i == Min(box1[4], box2[4])
        intersection == (x2_i - x1_i) * (y2_i - y1_i)
        area1 == (box1[3] - box1[1]) * (box1[4] - box1[2])
        area2 == (box2[3] - box2[1]) * (box2[4] - box2[2])
        union == area1 + area2 - intersection
    IN  IF NoOverlap(x1_i, y1_i, x2_i, y2_i) THEN <<0, 1>>
        ELSE IF union = 0 THEN <<0, 1>>
        ELSE Quotient(intersection, union)

\* iou >= merge_threshold, for iou = q = <<n, d>> with d > 0 and
\* merge_threshold = t = <<tn, td>> with td > 0.
IouAtLeast(q, t) == q[1] * t[2] >= t[1] * q[2]

\* ------------------------------------------------------ detection merger
\* Well-formed boxes the detector hands over: squares on the diagonal.
Intervals == {p \in (0..MaxCoord) \X (0..MaxCoord) : p[1] < p[2]}
Boxes == {<<p[1], p[1], p[2], p[2]>> : p \in Intervals}
\* Confidences 0.5 and 0.9 as floats.
Confs == {Round(5, 10), Round(9, 10)}
Detections == [bounding_box_pixels : Boxes, confidence : Confs]
\* merge_threshold values: below 0, IoU of nested squares, the default 0.3, above 1.
Thresholds == {<<-1, 2>>, <<1, 4>>, <<3, 10>>, <<3, 2>>}

RECURSIVE SeqsUpTo(_, _)
SeqsUpTo(S, n) ==
    IF n = 0 THEN {<<>>}
    ELSE LET shorter == SeqsUpTo(S, n - 1)
         IN  shorter \cup {Append(s, x) : s \in {t \in shorter : Len(t) = n - 1}, x \in S}

\* sorted(detections, key=confidence, reverse=True): stable, so equal
\* confidences keep their input order.
InsertByConf(s, d) ==
    LET k == Cardinality({n \in 1..Len(s) : s[n].confidence >= d.confidence})
    IN  SubSeq(s, 1, k) \o <<d>> \o SubSeq(s, k + 1, Len(s))

RECURSIVE SortByConf(_)
SortByConf(s) ==
    IF s = <<>> THEN <<>>
    ELSE InsertByConf(SortByConf(SubSeq(s, 1, Len(s) - 1)), s[Len(s)])

\* Faulty variant: the inner loop does not look at used.
IsUsedNever(j, usedNow) == FALSE

\* if j in used: continue
IsUsed(j, usedNow) == j \in usedNow

\* Faulty variant: the lower edge takes the min, as the upper edge does.
UnionBoxMinY2(b1, b2) ==
    <<Min(b1[1], b2[1]), Min(b1[2], b2[2]), Max(b1[3], b2[3]), Min(b1[4], b2[4])>>

\* Merge bounding boxes (union)
UnionBox(b1, b2) ==
    <<Min(b1[1], b2[1]), Min(b1[2], b2[2]), Max(b1[3], b2[3]), Max(b1[4], b2[4])>>

\* Faulty variant: the sum is divided by count, not count + 1.
AverageConfByCount(conf, count, confidence) ==
    FDiv(FAdd(FMul(conf, count), confidence), count)

\* merged_conf = (merged_conf * count + det2['confidence']) / (count + 1)
AverageConf(conf, count, confidence) ==
    FDiv(FAdd(FMul(conf, count), confidence), count + 1)

\* Faulty variant: the candidate is compared with the box grown so far.
MergedBox(det1, merged_box) == merged_box

\* The first argument of _calculate_iou_pixels in the inner loop:
\* det1['bounding_box_pixels'], whatever merged_box has grown to.
SeedBox(det1, merged_box) == det1.bounding_box_pixels

\* The inner loop over j = i+1 .. len-1 for the seed det1 = sd[i]; acc holds
\* merged_box, merged_conf, count, used and (history) the members.
RECURSIVE Scan(_, _, _, _, _)
Scan(sd, t, seed, j, acc) ==
    IF j > Len(sd) THEN acc
    ELSE IF IsUsed(j, acc.used) THEN Scan(sd, t, seed, j + 1, acc)
    ELSE IF IouAtLeast(_calculate_iou_pixels(SeedBox(sd[seed], acc.merged_box),
                                             sd[j].bounding_box_pixels), t)
         THEN Scan(sd, t, seed, j + 1,
                   [merged_box  |-> UnionBox(acc.merged_box, sd[j].bounding_box_pixels),
                    merged_conf |-> AverageConf(acc.merged_conf, acc.count, sd[j].confidence),
                    count       |-> acc.count + 1,
                    used        |-> acc.used \cup {j},
                    members     |-> acc.members \cup {j}])
         ELSE Scan(sd, t, seed, j + 1, acc)

MergeIdle ==
    /\ detections = <<>> /\ merge_threshold = <<0, 1>> /\ sorted_detections = <<>>
    /\ merged = <<>> /\ used = {} /\ i = 0 /\ clusters = <<>>
    /\ pc = "idle" /\ call = "first" /\ first = <<>>

MergeInit ==
    /\ detections \in SeqsUpTo(Detections, MaxDets)
    /\ merge_threshold \in Thresholds
    /\ sorted_detections = <<>> /\ merged = <<>> /\ used = {} /\ i = 0
    /\ clusters = <<>> /\ pc = "call" /\ call = "first" /\ first = <<>>

\* if len(detections) <= 1: return detections
MergeReturnInput ==
    /\ pc = "call" /\ Len(detections) <= 1
    /\ merged' = detections
    /\ clusters' = [k \in 1..Len(detections) |-> {k}]
    /\ pc' = "done"
    /\ UNCHANGED <<detections, merge_threshold, sorted_detections, used, i, call, first>>
    /\ UNCHANGED notMerge

\* sorted_detections = sorted(...); merged = []; used = set()
MergeSort ==
    /\ pc = "call" /\ Len(detections) > 1
    /\ sorted_detections' = SortByConf(detections)
    /\ merged' = <<>> /\ used' = {} /\ clusters' = <<>> /\ i' = 1
    /\ pc' = "loop"
    /\ UNCHANGED <<detections, merge_threshold, call, first>>
    /\ UNCHANGED notMerge

\* for i, det1 in enumerate(sorted_detections): if i in used: continue
ClusterSkip ==
    /\ pc = "loop" /\ i <= Len(sorted_detections) /\ i \in used
    /\ i' = i + 1
    /\ UNCHANGED <<detections, merge_threshold, sorted_detections, merged, used,
                   clusters, pc, call, first>>
    /\ UNCHANGED notMerge

\* One pass of the outer loop for an unconsumed det1: the inner loop, then
\* merged.append(...) and used.add(i).
ClusterBuild ==
    /\ pc = "loop" /\ i <= Len(sorted_detections) /\ i \notin used
    /\ LET det1 == sorted_detections[i]
           acc  == Scan(sorted_detections, merge_threshold, i, i + 1,
                        [merged_box  |-> det1.bounding_box_pixels,
                         merged_conf |-> det1.confidence,
                         count       |-> 1,
                         used        |-> used,
                         members     |-> {i}])
       IN  /\ merged' = Append(merged, [bounding_box_pixels |-> acc.merged_box,
                                        confidence |-> acc.merged_conf])
           /\ used' = acc.used \cup {i}
           /\ clusters' = Append(clusters, acc.members)
    /\ i' = i + 1
    /\ UNCHANGED <<detections, merge_threshold, sorted_detections, pc, call, first>>
    /\ UNCHANGED notMerge

\* return merged
MergeReturn ==
    /\ pc = "loop" /\ i > Len(sorted_detections)
    /\ pc' = "done"
    /\ UNCHANGED <<detections, merge_threshold, sorted_detections, merged, used, i,
                   clusters, call, first>>
    /\ UNCHANGED notMerge

\* The caller merges the returned list again with the same threshold.
CallAgain ==
    /\ pc = "done" /\ call = "first"
    /\ first' = merged /\ detections' = merged /\ call' = "again"
    /\ sorted_detections' = <<>> /\ merged' = <<>> /\ used' = {} /\ i' = 0
    /\ clusters' = <<>> /\ pc' = "call"
    /\ UNCHANGED merge_threshold
    /\ UNCHANGED notMerge

\* The threshold clamped to the nearest bound of [0, 1].
Clamped(t) == IF t[1] < 0 THEN <<0, 1>> ELSE IF t[1] > t[2] THEN <<1, 1>> ELSE t

\* The caller merges the same list with the out-of-range threshold clamped.
CallClamped ==
    /\ pc = "done" /\ call = "first" /\ Clamped(merge_threshold) # merge_threshold
    /\ first' = merged /\ merge_threshold' = Clamped(merge_threshold)
    /\ call' = "clamped"
    /\ sorted_detections' = <<>> /\ merged' = <<>> /\ used' = {} /\ i' = 0
    /\ clusters' = <<>> /\ pc' = "call"
    /\ UNCHANGED detections
    /\ UNCHANGED notMerge

MergeNext ==
    \/ MergeReturnInput
    \/ MergeSort
    \/ ClusterSkip
    \/ ClusterBuild
    \/ MergeReturn
    \/ CallAgain
    \/ CallClamped

\* ------------------------------------------- overlap scorer, called alone
\* Any four coordinates, malformed boxes (x1 >= x2 or y1 >= y2) included.
AnyBoxes == {<<a, b, c, d>> : a \in 0..MaxCoord, b \in 0..MaxCoord,
                              c \in 0..MaxCoord, d \in 0..MaxCoord}

IouIdle == arg1 = <<0, 0, 0, 0>> /\ arg2 = <<0, 0, 0, 0>> /\ iou = <<0, 1>> /\ ipc = "idle"

IouInit == arg1 \in AnyBoxes /\ arg2 \in AnyBoxes /\ iou = <<0, 1>> /\ ipc = "call"

IouCall ==
    /\ ipc = "call"
    /\ iou' = _calculate_iou_pixels(arg1, arg2)
    /\ ipc' = "returned"
    /\ UNCHANGED <<arg1, arg2>>
    /\ UNCHANGED notIou

\* --------------------------------------------------------- grid rasterizer
Pixels(w, h) == (0..(w - 1)) \X (0..(h - 1))

\* Faulty variant: the lower clamp is missing.
ClipCoordNoFloor(v, n) == Min(v, n - 1)

\* max(0, min(v, n - 1))
ClipCoord(v, n) == Max(0, Min(v, n - 1))

\* Faulty variant: x1 is clipped from y1.
ClipBoxX1FromY1(b, w, h) ==
    <<ClipCoord(b[2], w), ClipCoord(b[2], h), ClipCoord(b[3], w), ClipCoord(b[4], h)>>

\* The four clipped coordinates of a wall's bounding_box on a grid of shape (h, w).
ClipBox(b, w, h) ==
    <<ClipCoord(b[1], w), ClipCoord(b[2], h), ClipCoord(b[3], w), ClipCoord(b[4], h)>>

\* cv2.rectangle(grid, pt1, pt2, 255, -1): the filled rectangle with the
\* opposite corners pt1 and pt2, both included, cut to the image.
Rectangle(g, w, h, pt1, pt2) ==
    g \cup {p \in Pixels(w, h) :
              /\ Min(pt1[1], pt2[1]) <= p[1] /\ p[1] <= Max(pt1[1], pt2[1])
              /\ Min(pt1[2], pt2[2]) <= p[2] /\ p[2] <= Max(pt1[2], pt2[2])}

\* One pass of the loop of _draw_walls.
DrawOne(g, w, h, b) ==
    LET c == ClipBox(b, w, h) IN Rectangle(g, w, h, <<c[1], c[2]>>, <<c[3], c[4]>>)

\* _draw_walls over a whole list.
RECURSIVE _draw_walls(_, _, _, _)
_draw_walls(g, w, h, ws) ==
    IF ws = <<>> THEN g ELSE _draw_walls(DrawOne(g, w, h, ws[1]), w, h, Tail(ws))

\* The pixels of the wall's box clipped to [0, w-1] x [0, h-1], as the
\* rasterizer's contract states it.
Clamp(v, lo, hi) == IF v < lo THEN lo ELSE IF v > hi THEN hi ELSE v
ClippedPixels(b, w, h) ==
    LET xa == Clamp(b[1], 0, w - 1)
        xb == Clamp(b[3], 0, w - 1)
        ya == Clamp(b[2], 0, h - 1)
        yb == Clamp(b[4], 0, h - 1)
    IN  {p \in Pixels(w, h) : /\ (xa <= p[1] /\ p[1] <= xb) \/ (xb <= p[1] /\ p[1] <= xa)
                              /\ (ya <= p[2] /\ p[2] <= yb) \/ (yb <= p[2] /\ p[2] <= ya)}

\* Wall boxes with coordinates from one below 0 to one past the last pixel,
\* in any order of the corners.
WallBoxes(w, h) == {<<a, b, c, d>> : a \in -1..w, b \in -1..h, c \in -1..w, d \in -1..h}
\* Wall boxes with every coordinate a pixel of the grid.
AnyWalls(w, h) == {<<a, b, c, d>> : a \in 0..(w - 1), b \in 0..(h - 1),
                                    c \in 0..(w - 1), d \in 0..(h - 1)}

GridIdle ==
    /\ width = 0 /\ height = 0 /\ walls = <<>> /\ kernel_size = 0 /\ grid = {}
    /\ wall = <<>> /\ drawn = 0 /\ before = {} /\ covered = {} /\ inverted = {}
    /\ cleaned = {} /\ gpc = "idle"

\* _draw_walls alone, on a fresh grid, the walls of the list taken one by one.
DrawInit ==
    /\ width \in 1..MaxW /\ height \in 1..MaxH
    /\ walls = <<>> /\ kernel_size = 0 /\ grid = {} /\ wall = <<>> /\ drawn = 0
    /\ before = {} /\ covered = {} /\ inverted = {} /\ cleaned = {} /\ gpc = "create"

\* _create_grid: np.zeros((height, width)), which raises ValueError when a
\* dimension is negative and returns an array without elements when one is 0.
CreateGrid ==
    /\ gpc = "create"
    /\ grid' = {}
    /\ gpc' = IF width < 0 \/ height < 0 THEN "raised" ELSE "draw"
    /\ UNCHANGED <<width, height, walls, kernel_size, wall, drawn, before, covered,
                   inverted, cleaned>>
    /\ UNCHANGED notGrid

\* for wall in walls: the next wall of the list, any box.
DrawWall ==
    /\ gpc = "draw" /\ drawn < MaxWalls
    /\ \E b \in WallBoxes(width, height) :
          /\ wall' = b
          /\ grid' = DrawOne(grid, width, height, b)
          /\ covered' = covered \cup ClippedPixels(b, width, height)
    /\ before' = grid
    /\ drawn' = drawn + 1
    /\ UNCHANGED <<width, height, walls, kernel_size, inverted, cleaned, gpc>>
    /\ UNCHANGED notGrid

\* return grid
DrawReturn ==
    /\ gpc = "draw"
    /\ gpc' = "drawn"
    /\ UNCHANGED <<width, height, walls, kernel_size, grid, wall, drawn, before, covered,
                   inverted, cleaned>>
    /\ UNCHANGED notGrid

DrawNext == CreateGrid \/ DrawWall \/ DrawReturn

\* ----------------------------------------------------- morphological cleaner
\* The default kernel_size, and the kernel that changes nothing.
KernelSizes == {1, 3}

\* The offsets of a k x k all-ones kernel about its anchor, the centre (k // 2).
Offsets(k) == {<<dx, dy>> : dx \in (0 - k \div 2)..(k - 1 - k \div 2),
                            dy \in (0 - k \div 2)..(k - 1 - k \div 2)}

\* cv2.dilate and cv2.erode with the default border: pixels outside the image
\* do not count.
Dilate(img, w, h, k) ==
    LET DilateBy(offs) ==
            {p \in Pixels(w, h) : \E o \in offs : <<p[1] + o[1], p[2] + o[2]>> \in img}
    IN  DilateBy(Offsets(k))
Erode(img, w, h, k) ==
    LET ErodeBy(px, offs) ==
            {p \in px : \A o \in offs :
                <<p[1] + o[1], p[2] + o[2]>> \in px
                    => <<p[1] + o[1], p[2] + o[2]>> \in img}
    IN  ErodeBy(Pixels(w, h), Offsets(k))

\* cv2.morphologyEx(image, cv2.MORPH_CLOSE, kernel): dilation, then erosion
MorphClose(img, w, h, k) == Erode(Dilate(img, w, h, k), w, h, k)
\* cv2.morphologyEx(image, cv2.MORPH_OPEN, kernel): erosion, then dilation
MorphOpen(img, w, h, k) == Dilate(Erode(img, w, h, k), w, h, k)

\* _apply_morphology: closing, then opening
_apply_morphology(image, w, h, k) == MorphOpen(MorphClose(image, w, h, k), w, h, k)

\* Well-formed wall boxes (x1 < x2, y1 < y2) inside the grid.
InnerWalls(w, h) == {b \in AnyWalls(w, h) : b[1] < b[3] /\ b[2] < b[4]}

\* convert / detect_rooms on a GridW x GridH image.
ConvertInit ==
    /\ width = GridW /\ height = GridH
    /\ walls \in SeqsUpTo(InnerWalls(GridW, GridH), MaxWalls)
    /\ kernel_size \in KernelSizes
    /\ grid = {} /\ wall = <<>> /\ drawn = 0 /\ before = {} /\ covered = {}
    /\ inverted = {} /\ cleaned = {} /\ gpc = "create"

RECURSIVE CoveredBy(_, _, _)
CoveredBy(ws, w, h) ==
    IF ws = <<>> THEN {} ELSE ClippedPixels(ws[1], w, h) \cup CoveredBy(Tail(ws), w, h)

\* grid = self._draw_walls(grid, walls)
ConvertDraw ==
    /\ gpc = "draw"
    /\ grid' = _draw_walls(grid, width, height, walls)
    /\ before' = grid
    /\ covered' = CoveredBy(walls, width, height)
    /\ wall' = IF walls = <<>> THEN <<>> ELSE walls[Len(walls)]
    /\ drawn' = Len(walls)
    /\ gpc' = "drawn"
    /\ UNCHANGED <<width, height, walls, kernel_size, inverted, cleaned>>
    /\ UNCHANGED notGrid

\* inverted = 255 - grid
Invert ==
    /\ gpc = "drawn"
    /\ inverted' = Pixels(width, height) \ grid
    /\ gpc' = "inverted"
    /\ UNCHANGED <<width, height, walls, kernel_size, grid, wall, drawn, before, covered,
                   cleaned>>
    /\ UNCHANGED notGrid

\* What cv2 makes of an image of the given shape: an image without pixels is
\* refused by the builds that assert a non-empty source and passed through
\* by the others.
Outcomes(w, h, done) == IF Pixels(w, h) = {} THEN {"raised", done} ELSE {done}

\* cleaned = self._apply_morphology(inverted)
ApplyMorphology ==
    /\ gpc = "inverted"
    /\ cleaned' = _apply_morphology(inverted, width, height, kernel_size)
    /\ gpc' \in Outcomes(width, height, "cleaned")
    /\ UNCHANGED <<width, height, walls, kernel_size, grid, wall, drawn, before, covered,
                   inverted>>
    /\ UNCHANGED notGrid

ConvertNext == CreateGrid \/ ConvertDraw \/ Invert \/ ApplyMorphology

\* ----------------------------------------------------- component labeller
\* cv2.connectedComponentsWithStats(image, connectivity=8).  The labels are
\* numbered from 1 in the order in which a row-by-row scan of the image meets
\* the components; label 0 is every pixel that holds 0.

\* Faulty variant: connectivity 4.
Neighbours4(p) ==
    {<<p[1] + 1, p[2]>>, <<p[1] - 1, p[2]>>, <<p[1], p[2] + 1>>, <<p[1], p[2] - 1>>}

\* The 8 pixels around p.
Neighbours(p) == {<<p[1] + dx, p[2] + dy>> : dx \in -1..1, dy \in -1..1} \ {p}

\* The pixels of free reached from seen through the pixels of frontier.
RECURSIVE Grow(_, _, _)
Grow(frontier, seen, free) ==
    LET GrowBy(nxt) == IF nxt = {} THEN seen ELSE Grow(nxt, seen \cup nxt, free)
    IN  GrowBy(((UNION {Neighbours(p) : p \in frontier}) \cap free) \ seen)

\* The first pixel of a non-empty set in a row-by-row scan.
RasterFirst(S) ==
    LET FirstInRow(y) == <<SetMin({p[1] : p \in {q \in S : q[2] = y}}), y>>
    IN  FirstInRow(SetMin({p[2] : p \in S}))

\* The components of the set of pixels that hold 255, in label order.
RECURSIVE ConnectedComponents(_, _)
\* Faulty variant: only the first pixel of a component is marked as labelled.
ComponentsAfterFirst(free, acc, c) ==
    ConnectedComponents(free \ {RasterFirst(c)}, Append(acc, c))
ComponentsAfter(free, acc, c) == ConnectedComponents(free \ c, Append(acc, c))
ConnectedComponents(free, acc) ==
    LET ComponentsFrom(p) == ComponentsAfter(free, acc, Grow({p}, {p}, free))
    IN  IF free = {} THEN acc ELSE ComponentsFrom(RasterFirst(free))

\* One row of stats: the bounding rectangle and the pixel count.
StatsOf(c) ==
    LET StatsFrom(x0, y0) ==
            [x |-> x0, y |-> y0, w |-> SetMax({p[1] : p \in c}) - x0 + 1,
             h |-> SetMax({p[2] : p \in c}) - y0 + 1, area |-> Cardinality(c)]
    IN  StatsFrom(SetMin({p[1] : p \in c}), SetMin({p[2] : p \in c}))

\* ---------------------------------------------------------- contour tracer
\* cv2.findContours(mask, cv2.RETR_EXTERNAL, cv2.CHAIN_APPROX_SIMPLE) on the
\* mask of one component: the outer border of the component, followed from
\* its first pixel in a row-by-row scan, keeping the points at which the
\* direction of the border changes.  Directions are the chain codes 0..7:
\* east, north-east, north, ... counter-clockwise on the screen.
Deltas == << <<1, 0>>, <<1, -1>>, <<0, -1>>, <<-1, -1>>,
             <<-1, 0>>, <<-1, 1>>, <<0, 1>>, <<1, 1>> >>
Step(p, s) == <<p[1] + Deltas[(s % 8) + 1][1], p[2] + Deltas[(s % 8) + 1][2]>>

\* From the west of the first pixel clockwise: the first direction in which
\* a pixel of the component lies, 4 (west again) if there is none.
RECURSIVE SearchClockwise(_, _, _)
SearchClockwise(c, p, s) ==
    LET s1 == (s + 7) % 8
    IN  IF s1 = 4 THEN 4
        ELSE IF Step(p, s1) \in c THEN s1 ELSE SearchClockwise(c, p, s1)

\* From the direction after s counter-clockwise: the first direction in which
\* a pixel of the component lies.
RECURSIVE SearchCounter(_, _, _)
SearchCounter(c, p, s) ==
    IF Step(p, s + 1) \in c THEN (s + 1) % 8 ELSE SearchCounter(c, p, s + 1)

\* The pixel n steps from p in direction s.
Ahead(p, s, n) == <<p[1] + n * Deltas[(s % 8) + 1][1], p[2] + n * Deltas[(s % 8) + 1][2]>>

\* The border following loop: i3 is the current pixel, s the direction back
\* to the previous one, prev_s the direction of the last step written, s4
\* the direction of the next step.  The loop goes pixel by pixel and writes
\* a point where the direction changes; here the n steps of a straight run
\* are taken at once: the run ends at the first pixel from which the border
\* goes on in another direction, or with the step from i1 to i0 that closes
\* the border.
RECURSIVE Follow(_, _, _, _, _, _, _)
Follow(c, i0, i1, i3, s, prev_s, out) ==
    LET Closes(s4, k) == Ahead(i3, s4, k) = i0 /\ Ahead(i3, s4, k - 1) = i1
        Ends(s4, k) ==
            \/ Closes(s4, k)
            \/ SearchCounter(c, Ahead(i3, s4, k), (s4 + 4) % 8) # s4
        RunLength(s4) ==
            CHOOSE k \in 1..Cardinality(c) :
                (\A m \in 1..(k - 1) : ~Ends(s4, m)) /\ Ends(s4, k)
        FollowRun(s4, out4, n) ==
            IF Closes(s4, n) THEN out4
            ELSE Follow(c, i0, i1, Ahead(i3, s4, n), (s4 + 4) % 8, s4, out4)
        FollowFrom(s4) ==
            FollowRun(s4, IF s4 # prev_s THEN Append(out, i3) ELSE out, RunLength(s4))
    IN  FollowFrom(SearchCounter(c, i3, s))

\* The outer contour of a non-empty component.
findContours(c) ==
    LET ContourFrom(i0, s) ==
            IF s = 4 THEN <<i0>>
            ELSE Follow(c, i0, Step(i0, s), i0, s, (s + 4) % 8, <<>>)
        ContourAt(i0) == ContourFrom(i0, SearchClockwise(c, i0, 4))
    IN  ContourAt(RasterFirst(c))

\* ------------------------------------------------------ polygon simplifier
\* Lengths of contours are held exactly, as <<a, b>> for a + b * sqrt(2): the
\* points findContours keeps are joined by horizontal, vertical or diagonal
\* runs of pixels.  Comparisons with epsilon are made in exact arithmetic;
\* cv2 makes them in floating point.

\* Naturals too large for a machine integer, as their digits in base 10000
\* from the lowest; no digits is 0.
Base == 10000
RECURSIVE ToBig(_)
ToBig(n) == IF n = 0 THEN <<>> ELSE <<n % Base>> \o ToBig(n \div Base)

RECURSIVE BigAddWith(_, _, _)
BigAddWith(a, b, carry) ==
    LET BigAddDigit(t) ==
            <<t % Base>> \o BigAddWith(IF a = <<>> THEN a ELSE Tail(a),
                                       IF b = <<>> THEN b ELSE Tail(b), t \div Base)
    IN  IF a = <<>> /\ b = <<>> THEN ToBig(carry)
        ELSE BigAddDigit((IF a = <<>> THEN 0 ELSE a[1])
                         + (IF b = <<>> THEN 0 ELSE b[1]) + carry)
BigAdd(a, b) == BigAddWith(a, b, 0)

\* a - b for a >= b
RECURSIVE BigSubWith(_, _, _)
BigSubWith(a, b, borrow) ==
    LET BigCons(dgt, rest) == IF rest = <<>> /\ dgt = 0 THEN <<>> ELSE <<dgt>> \o rest
        BigSubDigit(t) ==
            BigCons(IF t < 0 THEN t + Base ELSE t,
                    BigSubWith(Tail(a), IF b = <<>> THEN b ELSE Tail(b),
                               IF t < 0 THEN 1 ELSE 0))
    IN  IF a = <<>> THEN <<>>
        ELSE BigSubDigit(a[1] - (IF b = <<>> THEN 0 ELSE b[1]) - borrow)
BigSub(a, b) == BigSubWith(a, b, 0)

\* a * k for 0 <= k < Base
RECURSIVE BigScaleWith(_, _, _)
BigScaleWith(a, k, carry) ==
    LET BigScaleDigit(t) == <<t % Base>> \o BigScaleWith(Tail(a), k, t \div Base)
    IN  IF a = <<>> THEN ToBig(carry) ELSE BigScaleDigit(a[1] * k + carry)
BigScale(a, k) == IF k = 0 THEN <<>> ELSE BigScaleWith(a, k, 0)

RECURSIVE BigMul(_, _)
BigMul(a, b) ==
    LET BigTimesBase(c) == IF c = <<>> THEN <<>> ELSE <<0>> \o c
    IN  IF a = <<>> \/ b = <<>> THEN <<>>
        ELSE BigAdd(BigScale(a, b[1]), BigTimesBase(BigMul(a, Tail(b))))

RECURSIVE BigLe(_, _)
BigLe(a, b) ==
    IF Len(a) # Len(b) THEN Len(a) < Len(b)
    ELSE IF a = <<>> THEN TRUE
    ELSE IF a[Len(a)] # b[Len(b)] THEN a[Len(a)] < b[Len(b)]
    ELSE BigLe(SubSeq(a, 1, Len(a) - 1), SubSeq(b, 1, Len(b) - 1))

\* The length of the segment from p to q.
SegLen(p, q) ==
    LET dx == IF q[1] >= p[1] THEN q[1] - p[1] ELSE p[1] - q[1]
        dy == IF q[2] >= p[2] THEN q[2] - p[2] ELSE p[2] - q[2]
    IN  IF dx = 0 \/ dy = 0 THEN <<dx + dy, 0>> ELSE <<0, dx>>

\* cv2.arcLength(contour, True)
RECURSIVE ArcFrom(_, _)
ArcFrom(c, k) ==
    LET AddLen(l, r) == <<l[1] + r[1], l[2] + r[2]>>
    IN  IF k > Len(c) THEN <<0, 0>>
        ELSE AddLen(SegLen(c[k], c[(k % Len(c)) + 1]), ArcFrom(c, k + 1))
arcLength(c) == IF Len(c) <= 1 THEN <<0, 0>> ELSE ArcFrom(c, 1)

\* The default epsilon_factor, 0.01, as <<numerator, denominator>>.
EpsilonFactor == <<1, 100>>

\* Faulty variant: every distance passes for one within epsilon.
LeEpsAlways(x, y, ef, len) == TRUE

\* x <= epsilon^2 * y, for epsilon = ef * (len[1] + len[2] * sqrt(2)) and
\* integers x, y >= 0: with d = ef[2]^2, a = ef[1]^2 * (len[1]^2 + 2 * len[2]^2)
\* and r = 2 * ef[1]^2 * len[1] * len[2] this is d * x - y * a <= y * r * sqrt(2),
\* decided by the sign of the left side and the squares of both sides.
LeEps(x, y, ef, len) ==
    LET BigSquare(a) == BigMul(a, a)
        LeRoot2(lhs, ya, r) ==
            \/ BigLe(lhs, ya)
            \/ BigLe(BigSquare(BigSub(lhs, ya)), BigScale(BigSquare(r), 2))
    IN  LeRoot2(BigMul(ToBig(ef[2] * ef[2]), ToBig(x)),
                BigMul(ToBig(y),
                       ToBig(ef[1] * ef[1] * (len[1] * len[1] + 2 * len[2] * len[2]))),
                BigMul(ToBig(y), ToBig(2 * ef[1] * ef[1] * len[1] * len[2])))

\* Points are read at positions 0 .. count - 1 that wrap around.
At(c, pos) == c[pos + 1]
Wrap(pos, count) == IF pos >= count THEN 0 ELSE pos

\* Step 1 of approxPolyDP on a closed curve, one pass: from the point at
\* start, the offset of the first farthest point and its squared distance;
\* off is the offset found by the pass before.
RECURSIVE Farthest(_, _, _, _, _)
Farthest(c, start, j, off, max_dist) ==
    IF j >= Len(c) THEN <<off, max_dist>>
    ELSE LET pt   == At(c, (start + j) % Len(c))
             dx   == pt[1] - At(c, start)[1]
             dy   == pt[2] - At(c, start)[2]
             dist == dx * dx + dy * dy
         IN  IF dist > max_dist THEN Farthest(c, start, j + 1, j, dist)
             ELSE Farthest(c, start, j + 1, off, max_dist)

\* The three passes: <<pos, offset, max_dist>> of the last one.
RECURSIVE Passes(_, _, _, _)
Passes(c, iters, pos, off) ==
    LET PassesFrom(start, f) ==
            IF iters = 1 THEN <<start, f[1], f[2]>> ELSE Passes(c, iters - 1, start, f[1])
        PassesAt(start) == PassesFrom(start, Farthest(c, start, 1, off, 0))
    IN  PassesAt((pos + off) % Len(c))

\* Step 3, the scan of one slice: the position of the first point between
\* start and end farthest from the chord, and that distance times the
\* chord's length.
RECURSIVE Deviation(_, _, _, _, _, _)
Deviation(c, start, end, pos, at, max_dist) ==
    IF pos = end THEN <<at, max_dist>>
    ELSE LET a    == At(c, start)
             dx   == At(c, end)[1] - a[1]
             dy   == At(c, end)[2] - a[2]
             pt   == At(c, pos)
             d    == (pt[2] - a[2]) * dx - (pt[1] - a[1]) * dy
             dist == IF d < 0 THEN 0 - d ELSE d
             nxt  == Wrap(pos + 1, Len(c))
         IN  IF dist > max_dist THEN Deviation(c, start, end, nxt, pos, dist)
             ELSE Deviation(c, start, end, nxt, at, max_dist)

\* Step 3: the points written for the slice from start to end.
RECURSIVE Slice(_, _, _, _, _)
Slice(c, start, end, ef, len) ==
    LET dx == At(c, end)[1] - At(c, start)[1]
        dy == At(c, end)[2] - At(c, start)[2]
        SliceAt(pos, dev) ==
            IF pos = end \/ LeEps(dev[2] * dev[2], dx * dx + dy * dy, ef, len)
            THEN <<At(c, start)>>
            ELSE Slice(c, start, dev[1], ef, len) \o Slice(c, dev[1], end, ef, len)
        SliceFrom(pos) == SliceAt(pos, Deviation(c, start, end, pos, start, 0))
    IN  SliceFrom(Wrap(start + 1, Len(c)))

\* Step 4: the clean-up pass over the points written, in place.
RECURSIVE CleanUp(_, _, _, _, _, _, _, _, _, _)
CleanUp(dst, count, new_count, pos, wpos, start_pt, pt, k, ef, len) ==
    IF ~(k < count /\ new_count > 2) THEN SubSeq(dst, 1, new_count)
    ELSE LET end_pt == At(dst, pos)
             pos1   == Wrap(pos + 1, count)
             dx     == end_pt[1] - start_pt[1]
             dy     == end_pt[2] - start_pt[2]
             d      == (pt[1] - start_pt[1]) * dy - (pt[2] - start_pt[2]) * dx
             inner  == (pt[1] - start_pt[1]) * (end_pt[1] - pt[1])
                       + (pt[2] - start_pt[2]) * (end_pt[2] - pt[2])
         IN  IF /\ LeEps(2 * d * d, dx * dx + dy * dy, ef, len)
                /\ dx # 0 /\ dy # 0 /\ inner >= 0
             THEN LET dst1 == [dst EXCEPT ![wpos + 1] = end_pt]
                  IN  CleanUp(dst1, count, new_count - 1, Wrap(pos1 + 1, count),
                              Wrap(wpos + 1, count), end_pt, At(dst1, pos1), k + 2, ef, len)
             ELSE CleanUp([dst EXCEPT ![wpos + 1] = pt], count, new_count, pos1,
                          Wrap(wpos + 1, count), pt, end_pt, k + 1, ef, len)

\* cv2.approxPolyDP(contour, epsilon, True) for
\* epsilon = epsilon_factor * cv2.arcLength(contour, True)
approxPolyDP(c, ef) ==
    LET ApproxClean(len, dst, count, pos) ==
            CleanUp(dst, count, count, Wrap(pos + 1, count), pos, At(dst, count - 1),
                    At(dst, pos), 0, ef, len)
        ApproxOf(len, dst) == ApproxClean(len, dst, Len(dst), Wrap(Len(dst), Len(dst)))
        ApproxFrom(len, far, last_pt) ==
            ApproxOf(len, IF LeEps(far[3], 1, ef, len) THEN <<At(c, far[1])>>
                          ELSE Slice(c, far[1], last_pt, ef, len)
                               \o Slice(c, last_pt, far[1], ef, len))
        ApproxWith(len, far) == ApproxFrom(len, far, (far[2] + far[1]) % Len(c))
    IN  ApproxWith(arcLength(c), Passes(c, 3, 0, 0))

\* ------------------------------------------------------- room extractor
RoomIdle ==
    /\ variant = "converter" /\ min_room_area = 0 /\ labels = <<>> /\ stats = <<>>
    /\ label = 0 /\ rooms = <<>> /\ run = 0 /\ earlier = <<>>

\* ------------------------------------- shape classifier, confidence policies
Variants == {"converter", "detector"}

\* GeometricRoomConverter._extract_rooms: if num_vertices == 4 ... elif <= 8
ConverterShapeType(n) ==
    IF n = 4 THEN "rectangle" ELSE IF n <= 8 THEN "l_shape" ELSE "complex"

\* Faulty variant: the detector with the converter's cutoff.
DetectorShapeTypeAt8(n) ==
    IF n = 4 THEN "rectangle" ELSE IF n <= 8 THEN "l_shape" ELSE "complex"

\* GeometricRoomDetector._extract_rooms: if num_vertices == 4 ... elif <= 6
DetectorShapeType(n) ==
    IF n = 4 THEN "rectangle" ELSE IF n <= 6 THEN "l_shape" ELSE "complex"

ShapeType(v, n) == IF v = "converter" THEN ConverterShapeType(n) ELSE DetectorShapeType(n)

\* Faulty variant: fewer than 4 vertices score as 4 do.
ConverterConfidenceUpTo4(n, a) ==
    IF n <= 4 THEN 95 ELSE IF n <= 6 THEN 85 ELSE IF n <= 8 THEN 75 ELSE 65

\* GeometricRoomConverter._calculate_confidence(vertices, area), in hundredths;
\* n is len(vertices).
ConverterConfidence(n, a) ==
    IF n = 4 THEN 95 ELSE IF n <= 6 THEN 85 ELSE IF n <= 8 THEN 75 ELSE 65

\* The product of two floats.
FTimes(a, b) == Round(a * b, Scale * Scale)
\* The difference of two floats, a >= b.
FSub(a, b) == Round(a - b, Scale)
\* The float nearest to the decimal literal num/den.
Literal(num, den) == Round(num, den)

\* round(x, 2) of a float x >= 0, in hundredths: the nearest hundredth to the
\* float's exact value, ties to the even hundredth.
Round2(x) ==
    LET n   == 100 * x
        fl  == n \div Scale
        r2  == 2 * (n - fl * Scale)
    IN  IF r2 > Scale \/ (r2 = Scale /\ fl % 2 = 1) THEN fl + 1 ELSE fl

\* Faulty variant: the area score without its cap at 1.0.
AreaScoreUncapped(a) == Round(a, 50000)

\* area_score = min(area / 50000, 1.0)
AreaScore(a) == Min(Round(a, 50000), Scale)

\* vertex_score = 1.0 - (min(num_vertices, 20) / 20) * 0.3
VertexScore(n) == FSub(Scale, FTimes(Round(Min(n, 20), 20), Literal(3, 10)))

\* GeometricRoomDetector._calculate_confidence(area, num_vertices), in
\* hundredths: round(area_score * 0.7 + vertex_score * 0.3, 2)
DetectorConfidence(a, n) ==
    Round2(FAdd(FTimes(AreaScore(a), Literal(7, 10)), FTimes(VertexScore(n), Literal(3, 10))))

Confidence(v, n, a) ==
    IF v = "converter" THEN ConverterConfidence(n, a) ELSE DetectorConfidence(a, n)

\* Areas about the 50000 at which the area score is capped.
Areas == {0, 1, 1000, 25000, 49999, 50000, 50001, 100000}

ClassIdle ==
    /\ num_vertices = 0 /\ area = 0 /\ shape_types = <<>> /\ confidences = <<>>
    /\ cpc = "idle"

ClassInit ==
    /\ num_vertices \in 0..MaxVertices /\ area \in Areas
    /\ shape_types = <<>> /\ confidences = <<>> /\ cpc = "call"

\* The classification and the scoring of one component by both classes.
Classify ==
    /\ cpc = "call"
    /\ shape_types' = [v \in Variants |-> ShapeType(v, num_vertices)]
    /\ confidences' = [v \in Variants |-> Confidence(v, num_vertices, area)]
    /\ cpc' = "returned"
    /\ UNCHANGED <<num_vertices, area>>
    /\ UNCHANGED notClass

\* --------------------------------------------------- _extract_rooms, whole
\* Faulty variant: the upper bound excludes an area equal to it.
TooLargeOrEqual(a, w, h) == 10 * a >= 9 * w * h

\* Faulty variant: the upper bound is the whole image.
TooLargeWhole(a, w, h) == a > w * h

\* area > max_area with max_area = width * height * 0.9.  The float product
\* is above a whole number a exactly when 9 * width * height > 10 * a.
TooLarge(a, w, h) == 10 * a > 9 * w * h

\* Faulty variant: the list of an earlier call is kept.
KeepRooms(old) == old

\* rooms = []
NewRooms(old) == <<>>

\* Faulty variant: a room's id is the number of its label.
RoomIdOfLabel(rs, l) == l

\* id=f"room_{len(rooms) + 1:03d}": the number in a room's id, for the room
\* about to be appended to rs.
RoomId(rs, l) == Len(rs) + 1

\* One pass of the loop of _extract_rooms, for label l with the pixels mask
\* in labels and the row st in stats.  findContours returns the one outer
\* contour of a mask that has a pixel, and no contour for a mask without
\* pixels, which "if not contours: continue" skips.  A room's id is the
\* number n of "room_{n:03d}"; its confidence is in hundredths; its centroid
\* is left out; label is history: the label the room was extracted from.
ExtractLabel(v, rs, l, mask, st, w, h, mra) ==
    LET RoomOf(approx, n) ==
            Append(rs, [id               |-> RoomId(rs, l),
                        polygon_vertices |-> approx,
                        bounding_box     |-> <<st.x, st.y, st.x + st.w, st.y + st.h>>,
                        area_pixels      |-> st.area,
                        confidence       |-> Confidence(v, n, st.area),
                        shape_type       |-> ShapeType(v, n),
                        num_vertices     |-> n,
                        label            |-> l])
        RoomFrom(approx) == RoomOf(approx, Len(approx))
    IN  IF st.area < mra \/ TooLarge(st.area, w, h) THEN rs
        ELSE IF mask = {} THEN rs
        ELSE RoomFrom(approxPolyDP(findContours(mask), EpsilonFactor))

\* The same for a label of the labeller, whose row in stats describes its
\* pixels.
ExtractOne(v, rs, l, comps, w, h, mra) ==
    ExtractLabel(v, rs, l, comps[l], StatsOf(comps[l]), w, h, mra)

\* Faulty variant: a room moves ahead of the rooms of equal area.
InsertByAreaAhead(s, r) ==
    LET k == Cardinality({n \in 1..Len(s) : s[n].area_pixels > r.area_pixels})
    IN  SubSeq(s, 1, k) \o <<r>> \o SubSeq(s, k + 1, Len(s))

\* rooms.sort(key=lambda r: r.area_pixels, reverse=True): stable, so rooms of
\* equal area keep the order in which they were appended.
InsertByArea(s, r) ==
    LET k == Cardinality({n \in 1..Len(s) : s[n].area_pixels >= r.area_pixels})
    IN  SubSeq(s, 1, k) \o <<r>> \o SubSeq(s, k + 1, Len(s))

RECURSIVE SortByArea(_)
SortByArea(s) ==
    IF s = <<>> THEN <<>>
    ELSE InsertByArea(SortByArea(SubSeq(s, 1, Len(s) - 1)), s[Len(s)])

\* What _extract_rooms returns: the detector sorts its list, the converter
\* returns it as built.
Returned_rooms(v, rs) == IF v = "detector" THEN SortByArea(rs) ELSE rs

\* for label in range(1, num_labels), from label l on.
RECURSIVE ExtractFrom(_, _, _, _, _, _, _)
ExtractFrom(v, rs, l, comps, w, h, mra) ==
    IF l > Len(comps) THEN rs
    ELSE ExtractFrom(v, ExtractOne(v, rs, l, comps, w, h, mra), l + 1, comps, w, h, mra)

\* convert / detect_rooms as one call; old is the list a previous call left.
Detect(v, mra, w, h, ws, k, old) ==
    LET DetectIn(cl) ==
            Returned_rooms(v, ExtractFrom(v, NewRooms(old), 1,
                                          ConnectedComponents(cl, <<>>), w, h, mra))
    IN  DetectIn(_apply_morphology(Pixels(w, h) \ _draw_walls({}, w, h, ws), w, h, k))

\* The one-pixel wall at p, and those of a set of pixels in row-by-row order.
PixelWall(p) == <<p[1], p[2], p[1], p[2]>>

RECURSIVE PixelWalls(_)
PixelWalls(S) ==
    IF S = {} THEN <<>>
    ELSE LET p == RasterFirst(S) IN <<PixelWall(p)>> \o PixelWalls(S \ {p})

\* The sets of at most n pixels of S.
RECURSIVE SetsUpTo(_, _)
SetsUpTo(S, n) ==
    LET Extended(smaller) == smaller \cup {T \cup {p} : T \in smaller, p \in S}
    IN  IF n = 0 THEN {{}} ELSE Extended(SetsUpTo(S, n - 1))

\* convert / detect_rooms on a MaskW x MaskH image whose walls cover any set
\* of at most MaxWallPixels pixels.  The kernel is 1 x 1, so the mask reaches
\* the labeller as it was drawn.
RoomsInit ==
    /\ width = MaskW /\ height = MaskH
    /\ walls \in {PixelWalls(S) : S \in SetsUpTo(Pixels(MaskW, MaskH), MaxWallPixels)}
    /\ kernel_size = 1
    /\ grid = {} /\ wall = <<>> /\ drawn = 0 /\ before = {} /\ covered = {}
    /\ inverted = {} /\ cleaned = {} /\ gpc = "create"
    /\ variant \in Variants /\ min_room_area \in (MaxMinArea - 1)..MaxMinArea
    /\ labels = <<>> /\ stats = <<>> /\ label = 0 /\ rooms = <<>>
    /\ run = 1 /\ earlier = <<>>

\* num_labels, labels, stats, centroids = self._find_components(cleaned)
FindComponents ==
    /\ gpc = "cleaned"
    /\ labels' = ConnectedComponents(cleaned, <<>>)
    /\ stats' = [l \in 1..Len(labels') |-> StatsOf(labels'[l])]
    /\ gpc' \in Outcomes(width, height, "labelled")
    /\ UNCHANGED <<width, height, walls, kernel_size, grid, wall, drawn, before, covered,
                   inverted, cleaned>>
    /\ UNCHANGED <<variant, min_room_area, label, rooms, run, earlier>>
    /\ UNCHANGED notRoom

\* _extract_rooms up to its loop: rooms = [], label = 1
ExtractBegin ==
    /\ gpc = "labelled"
    /\ rooms' = NewRooms(rooms) /\ label' = 1 /\ gpc' = "extract"
    /\ UNCHANGED <<width, height, walls, kernel_size, grid, wall, drawn, before, covered,
                   inverted, cleaned>>
    /\ UNCHANGED <<variant, min_room_area, labels, stats, run, earlier>>
    /\ UNCHANGED notRoom

\* One pass of the loop.
ExtractRoom ==
    /\ gpc = "extract" /\ label <= Len(labels)
    /\ rooms' = ExtractLabel(variant, rooms, label, labels[label], stats[label],
                             width, height, min_room_area)
    /\ label' = label + 1
    /\ UNCHANGED gridVars
    /\ UNCHANGED <<variant, min_room_area, labels, stats, run, earlier>>
    /\ UNCHANGED notRoom

\* The loop is over: the detector sorts, and the list is returned.
ExtractReturn ==
    /\ gpc = "extract" /\ label > Len(labels)
    /\ rooms' = Returned_rooms(variant, rooms)
    /\ earlier' = rooms'
    /\ gpc' = "returned"
    /\ UNCHANGED <<width, height, walls, kernel_size, grid, wall, drawn, before, covered,
                   inverted, cleaned>>
    /\ UNCHANGED <<variant, min_room_area, labels, stats, label, run>>
    /\ UNCHANGED notRoom

\* The same instance is called with another image: one without walls.
DetectOther ==
    /\ gpc = "returned" /\ run = 1
    /\ rooms' = Detect(variant, min_room_area, width, height, <<>>, kernel_size, rooms)
    /\ run' = 2
    /\ UNCHANGED gridVars
    /\ UNCHANGED <<variant, min_room_area, labels, stats, label, earlier>>
    /\ UNCHANGED notRoom

\* The same instance is called again with the first call's arguments.
DetectAgain ==
    /\ gpc = "returned" /\ run \in {1, 2}
    /\ rooms' = Detect(variant, min_room_area, width, height, walls, kernel_size, rooms)
    /\ run' = run + 2
    /\ UNCHANGED gridVars
    /\ UNCHANGED <<variant, min_room_area, labels, stats, label, earlier>>
    /\ UNCHANGED notRoom

\* The scenario of test_convert_with_multiple_rooms and
\* test_detect_rooms_full_pipeline: two walls that cross a square canvas.
ScenarioSize == 100
ScenarioMinArea == 100
ScenarioWalls == << <<50, 0, 55, 100>>, <<0, 50, 100, 55>> >>

\* convert / detect_rooms on the canvas of the scenario: with both of its
\* walls in either order and either kernel, and with none or one of them and
\* the kernel that changes nothing.
ScenarioInit ==
    /\ width = ScenarioSize /\ height = ScenarioSize
    /\ walls \in {s \in SeqsUpTo({ScenarioWalls[1], ScenarioWalls[2]}, 2) :
                     Len(s) = 2 => s[1] # s[2]}
    /\ kernel_size \in IF Len(walls) = 2 THEN KernelSizes ELSE {1}
    /\ grid = {} /\ wall = <<>> /\ drawn = 0 /\ before = {} /\ covered = {}
    /\ inverted = {} /\ cleaned = {} /\ gpc = "create"
    /\ variant \in Variants /\ min_room_area = ScenarioMinArea
    /\ labels = <<>> /\ stats = <<>> /\ label = 0 /\ rooms = <<>>
    /\ run = 1 /\ earlier = <<>>

\* labels without the pixels of the labels in gone.
Blanked(comps, gone) == [l \in 1..Len(comps) |-> IF l \in gone THEN {} ELSE comps[l]]

\* _extract_rooms called on its own, as the tests call it, with the stats of
\* a MaskW x MaskH mask and a labels array from which any of the labels may
\* be missing.
ExtractInit ==
    /\ width = MaskW /\ height = MaskH
    /\ walls = <<>> /\ kernel_size = 0
    /\ grid = {} /\ wall = <<>> /\ drawn = 0 /\ before = {} /\ covered = {}
    /\ inverted = {} /\ cleaned = {} /\ gpc = "labelled"
    /\ variant \in Variants /\ min_room_area \in (MaxMinArea - 1)..MaxMinArea
    /\ \E S \in SetsUpTo(Pixels(MaskW, MaskH), MaxWallPixels) :
          LET Given(comps) ==
                  /\ stats = [l \in 1..Len(comps) |-> StatsOf(comps[l])]
                  /\ labels \in {Blanked(comps, gone) : gone \in SUBSET (1..Len(comps))}
          IN  Given(ConnectedComponents(Pixels(MaskW, MaskH) \ S, <<>>))
    /\ label = 0 /\ rooms = <<>> /\ run = 1 /\ earlier = <<>>

ExtractNext == ExtractBegin \/ ExtractRoom \/ ExtractReturn

\* A room of RoomW x RoomH pixels from the image's left edge: the top notch
\* pixels of its last column are wall, and one pixel in row at of the column
\* to its right is floor.
BumpyRoom(notch, at) ==
    (Pixels(RoomW, RoomH) \ {<<RoomW - 1, y>> : y \in 0..(notch - 1)})
        \cup {<<RoomW, at>>}

\* _extract_rooms on the labels and stats of an image two columns wider than
\* such a room, in which the room is the one component.
FidelityInit ==
    /\ width = RoomW + 2 /\ height = RoomH
    /\ walls = <<>> /\ kernel_size = 0
    /\ grid = {} /\ wall = <<>> /\ drawn = 0 /\ before = {} /\ covered = {}
    /\ inverted = {} /\ cleaned = {} /\ gpc = "labelled"
    /\ variant \in Variants /\ min_room_area = ScenarioMinArea
    /\ \E notch \in 0..MaxNotch, b \in 1..MaxBumps :
          LET Given(mask) == labels = <<mask>> /\ stats = <<StatsOf(mask)>>
          IN  Given(BumpyRoom(notch, b * BumpStep))
    /\ label = 0 /\ rooms = <<>> /\ run = 1 /\ earlier = <<>>

\* GeometricRoomConverter(min_room_area, kernel_size) and
\* GeometricRoomDetector(min_room_area, kernel_size), then convert /
\* detect_rooms without walls, for any shape of the image and any size of the
\* kernel from -1 to 3 but 0.
InputsInit ==
    /\ width \in -1..MaxSide /\ height \in -1..MaxSide
    /\ walls = <<>>
    /\ kernel_size \in {-1, 1, 2, 3}
    /\ grid = {} /\ wall = <<>> /\ drawn = 0 /\ before = {} /\ covered = {}
    /\ inverted = {} /\ cleaned = {} /\ gpc = "new"
    /\ variant \in Variants /\ min_room_area \in 1..MaxSide
    /\ labels = <<>> /\ stats = <<>> /\ label = 0 /\ rooms = <<>>
    /\ run = 1 /\ earlier = <<>>

\* __init__: the three arguments are stored as they come, and
\* np.ones((kernel_size, kernel_size), np.uint8) raises ValueError when
\* kernel_size is negative.
Construct ==
    /\ gpc = "new"
    /\ gpc' = IF kernel_size < 0 THEN "raised" ELSE "create"
    /\ UNCHANGED <<width, height, walls, kernel_size, grid, wall, drawn, before, covered,
                   inverted, cleaned>>
    /\ UNCHANGED roomVars
    /\ UNCHANGED notRoom

InputsNext ==
    \/ Construct \/ CreateGrid \/ ConvertDraw \/ Invert \/ ApplyMorphology
    \/ FindComponents \/ ExtractBegin \/ ExtractRoom \/ ExtractReturn

ScenarioNext ==
    \/ CreateGrid \/ ConvertDraw \/ Invert \/ ApplyMorphology
    \/ FindComponents \/ ExtractBegin \/ ExtractRoom \/ ExtractReturn

RoomsNext ==
    \/ CreateGrid \/ ConvertDraw \/ Invert \/ ApplyMorphology
    \/ FindComponents \/ ExtractBegin \/ ExtractRoom \/ ExtractReturn
    \/ DetectOther \/ DetectAgain

\* ---------------------------------------------------------------- services
ApiIdle == converter = <<>> /\ requests = <<>>
WallIdle ==
    /\ confidence_threshold = 0 /\ threshold_arg = <<>> /\ model_conf = <<>> /\ calls = 0
    /\ wpc = "idle"
LambdaIdle ==
    /\ inference_handler = <<>> /\ event = <<>> /\ response = <<>>
    /\ downloads = 0 /\ loads = 0 /\ invocations = 0
CoreIdle == MergeIdle /\ IouIdle /\ GridIdle /\ RoomIdle /\ ClassIdle
ServiceIdle == ApiIdle /\ WallIdle /\ LambdaIdle

\* ------------------------------------------------- /api/convert-to-rooms
\* GeometricRoomConverter(min_room_area, kernel_size, epsilon_factor)
GeometricRoomConverter(mra, k, ef) ==
    [min_room_area |-> mra, kernel_size |-> k, epsilon_factor |-> ef]

\* The defaults of __init__.
DefaultMinArea == 2000
DefaultKernelSize == 3

\* "if request.min_room_area": neither None nor 0
Truthy(m) == m # <<>> /\ m[1] # 0

\* Faulty variant: the custom min_room_area is written to the global
\* converter, which then serves the request.
ConverterUpdated(conv, m) ==
    IF Truthy(m) /\ m[1] # conv.min_room_area
    THEN [global |-> [conv EXCEPT !.min_room_area = m[1]], temp_converter |-> <<>>]
    ELSE [global |-> conv, temp_converter |-> <<>>]

\* The converter that serves a request with min_room_area m when the
\* global one is conv: a temp_converter of its own when m is given and
\* differs from the global's, else the global one, which is left as it is.
ConverterFor(conv, m) ==
    IF Truthy(m) /\ m[1] # conv.min_room_area
    THEN [global |-> conv,
          temp_converter |-> <<GeometricRoomConverter(m[1], conv.kernel_size,
                                                       conv.epsilon_factor)>>]
    ELSE [global |-> conv, temp_converter |-> <<>>]

\* The image every request sends: two free blocks, 2 and 3 pixels wide, on
\* the sides of a wall that the default kernel leaves in place.
ApiWalls == << <<2, 0, 4, ApiHeight - 1>> >>
\* request.min_room_area: None, 0, the area of the smaller block, and the
\* default.
RequestAreas == {<<>>, <<0>>, <<2 * ApiHeight>>, <<DefaultMinArea>>}

ApiInit ==
    /\ converter = <<>>
    /\ requests \in [1..MaxRequests ->
                       {[min_room_area |-> m, rpc |-> "waiting", temp_converter |-> <<>>,
                         cleaned |-> {}, rooms |-> <<>>] : m \in RequestAreas}]

\* The object whose fields convert reads for request q: self.
Self(q) == IF q.temp_converter = <<>> THEN converter[1] ELSE q.temp_converter[1]

\* if converter is None: converter = GeometricRoomConverter()
EnterRequest(r) ==
    /\ requests[r].rpc = "waiting"
    /\ converter' = IF converter = <<>>
                    THEN <<GeometricRoomConverter(DefaultMinArea, DefaultKernelSize,
                                                  EpsilonFactor)>>
                    ELSE converter
    /\ requests' = [requests EXCEPT ![r].rpc = "entered"]
    /\ UNCHANGED notApi

\* if request.min_room_area and request.min_room_area != converter.min_room_area
ChooseConverter(r) ==
    /\ requests[r].rpc = "entered"
    /\ converter' = <<ConverterFor(converter[1], requests[r].min_room_area).global>>
    /\ requests' =
          [requests EXCEPT
             ![r].rpc = "chosen",
             ![r].temp_converter =
                 ConverterFor(converter[1], requests[r].min_room_area).temp_converter]
    /\ UNCHANGED notApi

\* convert up to the cleaned mask, which reads self.kernel
CleanRequest(r) ==
    /\ requests[r].rpc = "chosen"
    /\ requests' =
          [requests EXCEPT
             ![r].rpc = "cleaned",
             ![r].cleaned =
                 _apply_morphology(Pixels(ApiWidth, ApiHeight)
                                       \ _draw_walls({}, ApiWidth, ApiHeight, ApiWalls),
                                   ApiWidth, ApiHeight, Self(requests[r]).kernel_size)]
    /\ UNCHANGED converter
    /\ UNCHANGED notApi

\* the rest of convert, which reads self.min_room_area
ExtractRequest(r) ==
    /\ requests[r].rpc = "cleaned"
    /\ requests' =
          [requests EXCEPT
             ![r].rpc = "done",
             ![r].rooms =
                 ExtractFrom("converter", <<>>, 1,
                             ConnectedComponents(requests[r].cleaned, <<>>),
                             ApiWidth, ApiHeight, Self(requests[r]).min_room_area)]
    /\ UNCHANGED converter
    /\ UNCHANGED notApi

ApiNext ==
    \E r \in 1..MaxRequests :
        EnterRequest(r) \/ ChooseConverter(r) \/ CleanRequest(r) \/ ExtractRequest(r)

\* ------------------------------------------------------ WallDetector.detect
\* Confidence thresholds in hundredths, in steps of a tenth from 0.0 to 1.0.
ConfidenceThresholds == {10 * n : n \in 0..10}
\* The argument confidence_threshold of detect: None or a threshold.
ThresholdArgs == {<<>>} \cup {<<t>> : t \in ConfidenceThresholds}

\* threshold = confidence_threshold or self.confidence_threshold: the
\* argument when it is truthy, that is neither None nor 0.0.
ThresholdUsed(arg, own) == IF arg # <<>> /\ arg[1] # 0 THEN arg[1] ELSE own

\* WallDetector(confidence_threshold=...)
WallInit ==
    /\ confidence_threshold \in ConfidenceThresholds
    /\ threshold_arg = <<>> /\ model_conf = <<>> /\ calls = 0 /\ wpc = "call"

\* detect(image, confidence_threshold): self.model(image, conf=threshold)
WallDetect ==
    /\ wpc \in {"call", "returned"} /\ calls < MaxCalls
    /\ \E a \in ThresholdArgs :
          /\ threshold_arg' = a
          /\ model_conf' = <<ThresholdUsed(a, confidence_threshold)>>
    /\ calls' = calls + 1
    /\ wpc' = "returned"
    /\ UNCHANGED confidence_threshold
    /\ UNCHANGED notWall

\* ------------------------------------------------------- the v2 Lambda handler
\* get_inference_handler(): the global instance, made on first use by
\* YOLOInference(), whose __init__ sets self.model = None.
get_inference_handler(h) == IF h = <<>> THEN <<[model |-> <<>>]>> ELSE h

\* How a cold start can end: validate_s3_path raises, the archive comes
\* without a model file, or the model is loaded.
Outcomes_of_load == {"no_s3", "no_model_file", "loaded"}

\* load_model on the instance h under outcome o: nothing when the model is
\* loaded already, else what the cold start leaves.
load_model(h, o) ==
    IF h[1].model # <<>> \/ o # "loaded" THEN h ELSE <<[model |-> <<"YOLO">>]>>
\* Whether load_model downloads the archive, and whether it sets self.model.
Downloads(h, o) == h[1].model = <<>> /\ o # "no_s3"
Loads(h, o) == h[1].model = <<>> /\ o = "loaded"

\* A fresh container.
LambdaInit ==
    /\ inference_handler = <<>> /\ event = <<>> /\ response = <<>>
    /\ downloads = 0 /\ loads = 0 /\ invocations = 0

\* handler(event, context) with event = {'warmup': True}
Warmup ==
    /\ invocations < MaxInvocations
    /\ event' = <<"warmup">>
    /\ inference_handler' = get_inference_handler(inference_handler)
    /\ response' = <<[statusCode |-> 200, success |-> TRUE, model_loaded |-> TRUE]>>
    /\ invocations' = invocations + 1
    /\ UNCHANGED <<downloads, loads>>
    /\ UNCHANGED notLambda

\* handler(event, context) with an image: inference.predict(image_data),
\* which calls self.load_model() and answers 500 when that raises.
Predict ==
    /\ invocations < MaxInvocations
    /\ event' = <<"image">>
    /\ \E o \in Outcomes_of_load :
          LET PredictOn(h) ==
                  /\ inference_handler' = load_model(h, o)
                  /\ downloads' = downloads + (IF Downloads(h, o) THEN 1 ELSE 0)
                  /\ loads' = loads + (IF Loads(h, o) THEN 1 ELSE 0)
                  /\ response' = IF load_model(h, o)[1].model # <<>>
                                 THEN <<[statusCode |-> 200, success |-> TRUE]>>
                                 ELSE <<[statusCode |-> 500, success |-> FALSE]>>
          IN  PredictOn(get_inference_handler(inference_handler))
    /\ invocations' = invocations + 1
    /\ UNCHANGED notLambda

\* handler(event, context) with a body that has no 'image', or whose
\* confidence_threshold is not a number in [0, 1]: 400, before the
\* inference handler is asked for.
BadRequest ==
    /\ invocations < MaxInvocations
    /\ event' \in {<<"no_image">>, <<"bad_threshold">>}
    /\ response' = <<[statusCode |-> 400, success |-> FALSE]>>
    /\ invocations' = invocations + 1
    /\ UNCHANGED <<inference_handler, downloads, loads>>
    /\ UNCHANGED notLambda

LambdaNext == Warmup \/ Predict \/ BadRequest

\* ----------------------------------------------------------- specifications
\* invocations of the v2 Lambda handler in one container
InitLambda == LambdaInit /\ CoreIdle /\ ApiIdle /\ WallIdle
SpecLambda == InitLambda /\ [][LambdaNext]_vars

\* calls of WallDetector.detect on one instance
InitWall == WallInit /\ CoreIdle /\ ApiIdle /\ LambdaIdle
SpecWall == InitWall /\ [][WallDetect]_vars

\* requests to /api/convert-to-rooms, their steps interleaved
InitApi == ApiInit /\ CoreIdle /\ WallIdle /\ LambdaIdle
SpecApi == InitApi /\ [][ApiNext]_vars

\* merge_nearby_detections, then a second call by the same caller
InitRooms == RoomsInit /\ MergeIdle /\ IouIdle /\ ClassIdle /\ ServiceIdle
SpecRooms == InitRooms /\ [][RoomsNext]_vars

InitScenario == ScenarioInit /\ MergeIdle /\ IouIdle /\ ClassIdle /\ ServiceIdle
SpecScenario == InitScenario /\ [][ScenarioNext]_vars

\* construction, then convert / detect_rooms without walls
InitInputs == InputsInit /\ MergeIdle /\ IouIdle /\ ClassIdle /\ ServiceIdle
SpecInputs == InitInputs /\ [][InputsNext]_vars

\* _extract_rooms on stats and a labels array that need not agree
InitExtract == ExtractInit /\ MergeIdle /\ IouIdle /\ ClassIdle /\ ServiceIdle
SpecExtract == InitExtract /\ [][ExtractNext]_vars

\* _extract_rooms on a room whose outline the simplifier shortens
InitFidelity == FidelityInit /\ MergeIdle /\ IouIdle /\ ClassIdle /\ ServiceIdle
SpecFidelity == InitFidelity /\ [][ExtractNext]_vars

InitMerge == MergeInit /\ IouIdle /\ GridIdle /\ RoomIdle /\ ClassIdle /\ ServiceIdle
SpecMerge == InitMerge /\ [][MergeNext]_vars

\* _calculate_iou_pixels on any two boxes
InitIou == IouInit /\ MergeIdle /\ GridIdle /\ RoomIdle /\ ClassIdle /\ ServiceIdle
SpecIou == InitIou /\ [][IouCall]_vars

\* _create_grid and _draw_walls on any walls
InitDraw == DrawInit /\ MergeIdle /\ IouIdle /\ RoomIdle /\ ClassIdle /\ ServiceIdle
SpecDraw == InitDraw /\ [][DrawNext]_vars

\* convert / detect_rooms up to the cleaned mask
InitConvert == ConvertInit /\ MergeIdle /\ IouIdle /\ RoomIdle /\ ClassIdle /\ ServiceIdle
SpecConvert == InitConvert /\ [][ConvertNext]_vars

\* the shape classifier and the confidence policies on any vertex count and area
InitClassify == ClassInit /\ MergeIdle /\ IouIdle /\ GridIdle /\ RoomIdle /\ ServiceIdle
SpecClassify == InitClassify /\ [][Classify]_vars

\* ------------------------------------------------- claims on the merger
\* The list the cluster indices refer to: the input itself on the early
\* return, sorted_detections otherwise.
Ranked == IF Len(detections) <= 1 THEN detections ELSE sorted_detections

Running == pc \in {"loop", "done"}
Returned == pc = "done"


\* The sum of f[m] over m in S.
RECURSIVE SumOver(_, _)
SumOver(S, f) ==
    IF S = {} THEN 0 ELSE LET m == CHOOSE y \in S : TRUE IN f[m] + SumOver(S \ {m}, f)

MemberBoxes(k) == {Ranked[m].bounding_box_pixels : m \in clusters[k]}
\* The coordinate-wise union of the boxes of cluster k.
Hull(k) == <<SetMin({b[1] : b \in MemberBoxes(k)}), SetMin({b[2] : b \in MemberBoxes(k)}),
             SetMax({b[3] : b \in MemberBoxes(k)}), SetMax({b[4] : b \in MemberBoxes(k)})>>
Contains(outer, inner) ==
    outer[1] <= inner[1] /\ outer[2] <= inner[2] /\ outer[3] >= inner[3] /\ outer[4] >= inner[4]

\* The sum of the confidences of the members of cluster k, exactly.
ConfSum(k) == SumOver(clusters[k], [m \in clusters[k] |-> Ranked[m].confidence])

SameEntries(s, t) ==
    /\ Len(s) = Len(t)
    /\ \A e \in {s[n] : n \in 1..Len(s)} \cup {t[n] : n \in 1..Len(t)} :
          Cardinality({n \in 1..Len(s) : s[n] = e}) = Cardinality({n \in 1..Len(t) : t[n] = e})

\* C1: merging is idempotent: the second merge of a merged list, with the same
\* threshold, returns the same boxes and confidences, and no two boxes of a
\* merged list have IoU >= threshold with each other.
C1_MergeIdempotent ==
    /\ (Returned /\ call = "again") => SameEntries(merged, first)
    /\ (Returned /\ call = "first") =>
          \A a \in 1..Len(merged) : \A b \in 1..Len(merged) :
             a # b => ~IouAtLeast(_calculate_iou_pixels(merged[a].bounding_box_pixels,
                                                        merged[b].bounding_box_pixels),
                                  merge_threshold)

\* C2: every input detection ends up in exactly one cluster: clusters are
\* pairwise disjoint, consume exactly the used indices, cover the whole input
\* on return, the output has one entry per cluster, and
\* 1 <= len(output) <= len(input) for a non-empty input.
C2_OneClusterEach ==
    Running =>
      /\ Len(merged) = Len(clusters)
      /\ \A a \in 1..Len(clusters) : \A b \in 1..Len(clusters) :
            a # b => clusters[a] \cap clusters[b] = {}
      /\ \A a \in 1..Len(clusters) : clusters[a] # {} /\ clusters[a] \subseteq 1..Len(Ranked)
      /\ Len(detections) > 1 => UNION {clusters[a] : a \in 1..Len(clusters)} = used
      /\ Returned =>
            /\ UNION {clusters[a] : a \in 1..Len(clusters)} = 1..Len(detections)
            /\ Len(merged) <= Len(detections)
            /\ detections # <<>> => Len(merged) >= 1

C2_Witness ==
    Returned /\ call = "first" /\ Len(detections) = 3 /\ Len(merged) = 2

\* C3: the box of every output entry is the coordinate-wise union of the boxes
\* of its cluster, so it contains each of them; two detections whose IoU is
\* at least the threshold come back as one detection with the union box.
C3_UnionBox ==
    Running =>
      /\ \A k \in 1..Len(merged) :
            /\ merged[k].bounding_box_pixels = Hull(k)
            /\ \A b \in MemberBoxes(k) : Contains(merged[k].bounding_box_pixels, b)
      /\ (Returned /\ Len(detections) = 2
          /\ IouAtLeast(_calculate_iou_pixels(detections[1].bounding_box_pixels,
                                              detections[2].bounding_box_pixels),
                        merge_threshold))
         => /\ Len(merged) = 1
            /\ \A n \in 1..4 :
                  merged[1].bounding_box_pixels[n] =
                     IF n <= 2 THEN Min(detections[1].bounding_box_pixels[n],
                                        detections[2].bounding_box_pixels[n])
                               ELSE Max(detections[1].bounding_box_pixels[n],
                                        detections[2].bounding_box_pixels[n])

C3_Witness ==
    /\ Returned /\ call = "first" /\ Len(detections) = 2 /\ Len(merged) = 1
    /\ merged[1].bounding_box_pixels # detections[1].bounding_box_pixels
    /\ merged[1].bounding_box_pixels # detections[2].bounding_box_pixels

\* C4 as stated: the confidence of every output entry equals the arithmetic
\* mean of its members' confidences and lies between the smallest and the
\* largest of them.
C4_ExactMean ==
    Running =>
      \A k \in 1..Len(merged) :
         LET confs == {Ranked[m].confidence : m \in clusters[k]}
         IN  /\ merged[k].confidence * Cardinality(clusters[k]) = ConfSum(k)
             /\ SetMin(confs) <= merged[k].confidence
             /\ merged[k].confidence <= SetMax(confs)

\* C4 as amended: the confidence of every output entry stays in [0, 1] and
\* equals the mean of its n members up to the rounding of the float operations:
\* |n * confidence - sum| <= 3 * (n(n+1)/2 - 1) * 2^-MantBits.
C4_RoundedMean ==
    Running =>
      \A k \in 1..Len(merged) :
         LET n   == Cardinality(clusters[k])
             err == merged[k].confidence * n - ConfSum(k)
             tol == 3 * ((n * (n + 1)) \div 2 - 1) * Pow2(FracBits - MantBits)
         IN  /\ 0 <= merged[k].confidence /\ merged[k].confidence <= Scale
             /\ -tol <= err /\ err <= tol

C4_Witness ==
    /\ Returned /\ call = "first" /\ Len(merged) = 1 /\ Cardinality(clusters[1]) = 3
    /\ merged[1].confidence * 3 # ConfSum(1)

\* C5: a threshold outside [0, 1] behaves as if clamped: the merge of the same
\* list with the clamped threshold returns the same list.
C5_ThresholdClamped ==
    (Returned /\ call = "clamped") => merged = first

\* ------------------------------------------ claims on the overlap scorer
WellFormed(b) == b[1] < b[3] /\ b[2] < b[4]
\* The unit cells a well-formed box covers.
Cells(b) == {<<x, y>> : x \in b[1]..(b[3] - 1), y \in b[2]..(b[4] - 1)}

\* C6: for well-formed boxes the scorer returns 0.0 when the boxes share no
\* area (touching edges and corners included) and otherwise the area of the
\* intersection over the area of the union, a value in (0, 1] that is the
\* same with the arguments swapped and is 1 exactly for identical boxes.
C6_IouOfWellFormed ==
    (ipc = "returned" /\ WellFormed(arg1) /\ WellFormed(arg2)) =>
       LET inter   == Cardinality(Cells(arg1) \cap Cells(arg2))
           uni     == Cardinality(Cells(arg1) \cup Cells(arg2))
           swapped == _calculate_iou_pixels(arg2, arg1)
       IN  /\ ~Raised(iou)
           /\ inter = 0 => iou[1] = 0
           /\ inter > 0 => /\ iou[1] * uni = inter * iou[2]
                           /\ 0 < iou[1] /\ iou[1] <= iou[2]
           /\ iou[1] * swapped[2] = swapped[1] * iou[2]
           /\ iou[1] = iou[2] <=> arg1 = arg2

C6_Witness ==
    /\ ipc = "returned" /\ WellFormed(arg1) /\ WellFormed(arg2)
    /\ 0 < iou[1] /\ iou[1] < iou[2] /\ arg1[1] < arg2[1] /\ arg1[2] > arg2[2]

\* C7: with a malformed box (x1 >= x2 or y1 >= y2) as either argument the
\* scorer raises nothing and returns a value in [0, 1]: 0.0, as for a box of
\* no area.
C7_IouOfMalformed ==
    (ipc = "returned" /\ (~WellFormed(arg1) \/ ~WellFormed(arg2))) =>
       /\ ~Raised(iou)
       /\ iou[2] > 0 /\ 0 <= iou[1] /\ iou[1] <= iou[2]
       /\ iou[1] = 0

C7_Witness ==
    /\ ipc = "returned" /\ arg1[1] > arg1[3] /\ arg1[2] > arg1[4] /\ WellFormed(arg2)
    /\ arg2[1] < arg1[1] /\ arg2[3] > arg1[3]

\* ---------------------------------------------- claims on the rasterizer
\* C8: whatever the wall boxes, every painted pixel is a pixel of the grid,
\* the pixels the last wall painted lie in its box clipped to
\* [0, width-1] x [0, height-1], and no pixel outside the clipped boxes of
\* the walls drawn is painted.
C8_ClampCorrect ==
    gpc \in {"draw", "drawn"} =>
       /\ grid \subseteq Pixels(width, height)
       /\ grid \subseteq covered
       /\ drawn > 0 => (grid \ before) \subseteq ClippedPixels(wall, width, height)
       /\ drawn = 0 => grid = {}

C8_Witness ==
    /\ gpc = "drawn" /\ drawn = MaxWalls /\ wall[1] < 0 /\ wall[4] >= height
    /\ wall[3] >= width /\ grid = Pixels(width, height) /\ before # grid

\* C9: every wall leaves a trace: the wall just drawn has a painted pixel in
\* its clipped box, also when the box has no width or height after clipping,
\* and the pixels painted before stay painted.
C9_WallLeavesTrace ==
    (gpc \in {"draw", "drawn"} /\ drawn > 0) =>
       /\ ClippedPixels(wall, width, height) \cap grid # {}
       /\ before \subseteq grid

C9_Witness ==
    /\ gpc = "drawn" /\ drawn > 0 /\ wall[1] < 0 /\ wall[3] < 0 /\ wall[2] > wall[4]
    /\ width > 1 /\ grid # {} /\ before = {}

\* ------------------------------------------------- claims on the cleaner
\* Two walls a, b are collinear segments with a gap: the same extent across
\* the line, b after a along it, and 1 .. kernel_size - 1 pixels between them.
GapAlongX(a, b) ==
    /\ a[2] = b[2] /\ a[4] = b[4]
    /\ b[1] - a[3] - 1 >= 1 /\ b[1] - a[3] - 1 < kernel_size
GapAlongY(a, b) ==
    /\ a[1] = b[1] /\ a[3] = b[3]
    /\ b[2] - a[4] - 1 >= 1 /\ b[2] - a[4] - 1 < kernel_size

\* C10: the cleaner closes and then opens the inverted mask with the
\* kernel_size x kernel_size kernel, and every pixel of a gap narrower than
\* kernel_size between two collinear wall segments is not free in the cleaned
\* mask.
C10_GapSealed ==
    gpc = "cleaned" =>
       /\ cleaned = MorphOpen(MorphClose(Pixels(width, height) \ grid, width, height,
                                         kernel_size), width, height, kernel_size)
       /\ \A m \in 1..Len(walls) : \A n \in 1..Len(walls) :
             /\ GapAlongX(walls[m], walls[n]) =>
                   \A x \in (walls[m][3] + 1)..(walls[n][1] - 1) :
                      \A y \in walls[m][2]..walls[m][4] : <<x, y>> \notin cleaned
             /\ GapAlongY(walls[m], walls[n]) =>
                   \A y \in (walls[m][4] + 1)..(walls[n][2] - 1) :
                      \A x \in walls[m][1]..walls[m][3] : <<x, y>> \notin cleaned

\* ------------------------------------------------------------------ C11
\* The call has just labelled its cleaned mask; the rooms are those of this
\* mask.
Labelled == gpc = "labelled"
RoomsOfMask == gpc \in {"extract", "returned"} /\ run # 2

Abs(x) == IF x < 0 THEN 0 - x ELSE x

\* Two pixels that touch by a side or by a corner.
Adjacent(p, q) == p # q /\ Abs(p[1] - q[1]) <= 1 /\ Abs(p[2] - q[2]) <= 1

\* The pixels of C reached from p in at most n steps between adjacent pixels.
RECURSIVE ReachIn(_, _, _)
ReachIn(C, p, n) ==
    IF n = 0 THEN {p}
    ELSE LET r == ReachIn(C, p, n - 1)
         IN  r \cup {q \in C : \E x \in r : Adjacent(x, q)}

\* Every pixel of C is reached from one of them, so from each of them.
Connected8(C) == \E p \in {RasterFirst(C)} : ReachIn(C, p, Cardinality(C) - 1) = C

\* C11: the labels 1, 2, ... partition the free pixels of the cleaned mask
\* into its 8-connected components: every free pixel carries exactly one
\* label, no wall pixel carries one (it is label 0), each label's pixels are
\* connected through sides and corners, and no two pixels of different labels
\* touch, not even by a corner.  The area in stats is the number of pixels
\* with the label, and every room comes from a label >= 1 and has that
\* label's pixel count as its area.
C11_LabelsPartition ==
    /\ Labelled =>
          /\ UNION {labels[l] : l \in 1..Len(labels)} = cleaned
          /\ \A l \in 1..Len(labels) :
                /\ labels[l] # {}
                /\ Connected8(labels[l])
                /\ stats[l].area = Cardinality(labels[l])
                /\ \A m \in 1..Len(labels) :
                      m # l => /\ labels[l] \cap labels[m] = {}
                               /\ \A p \in labels[l], q \in labels[m] : ~Adjacent(p, q)
    /\ RoomsOfMask =>
          \A n \in 1..Len(rooms) :
             /\ rooms[n].label \in 1..Len(labels)
             /\ rooms[n].area_pixels = Cardinality(labels[rooms[n].label])
             /\ labels[rooms[n].label] \cap grid = {}

\* A mask whose walls leave a component joined only by a corner, and a room
\* extracted from it.
C11_Witness ==
    /\ gpc = "returned" /\ run = 1 /\ rooms # <<>> /\ cleaned # Pixels(width, height)
    /\ \E l \in 1..Len(labels) :
          \E p \in labels[l], q \in labels[l] :
             /\ Adjacent(p, q) /\ p[1] # q[1] /\ p[2] # q[2]
             /\ <<p[1], q[2]>> \notin cleaned /\ <<q[1], p[2]>> \notin cleaned

\* ------------------------------------------------------------------ C12
\* The first call has returned.
FirstReturned == gpc = "returned" /\ run = 1

\* C12: every returned room has min_room_area <= area_pixels and
\* area_pixels <= 0.9 * width * height, and every label whose pixel count is
\* in that closed range is returned as exactly one room; an area equal to
\* either bound is kept.
C12_AreaFilter ==
    FirstReturned =>
        /\ \A n \in 1..Len(rooms) :
              /\ min_room_area <= rooms[n].area_pixels
              /\ 10 * rooms[n].area_pixels <= 9 * width * height
        /\ \A l \in 1..Len(labels) :
              (/\ min_room_area <= Cardinality(labels[l])
               /\ 10 * Cardinality(labels[l]) <= 9 * width * height)
              => Cardinality({n \in 1..Len(rooms) : rooms[n].label = l}) = 1

\* A room whose area is exactly 0.9 * width * height was returned.
C12_Witness ==
    /\ FirstReturned
    /\ \E n \in 1..Len(rooms) : 10 * rooms[n].area_pixels = 9 * width * height

\* ------------------------------------------------------------------ C13
RECURSIVE SumOfAreas(_)
SumOfAreas(rs) == IF rs = <<>> THEN 0 ELSE rs[1].area_pixels + SumOfAreas(Tail(rs))

\* C13: the areas of the rooms a call returns add up to at most
\* width * height (and to at most the number of free pixels of the mask).
C13_AreaConserved ==
    /\ gpc = "returned" => SumOfAreas(rooms) <= width * height
    /\ FirstReturned => SumOfAreas(rooms) <= Cardinality(cleaned)

\* Two rooms were returned that together cover every free pixel.
C13_Witness ==
    FirstReturned /\ Len(rooms) = 2 /\ SumOfAreas(rooms) = Cardinality(cleaned)

\* ------------------------------------------------------------------ C14
\* C14: a second call with the same walls, width and height on the same
\* instance returns the list the first call returned: the same rooms with
\* the same ids, polygons, areas, shapes and confidences in the same order,
\* whether or not the instance was called with another image in between.
C14_SameRooms == (gpc = "returned" /\ run \in {3, 4}) => rooms = earlier

\* Two rooms returned twice, with a call on another image in between.
C14_Witness == gpc = "returned" /\ run = 4 /\ Len(rooms) = 2 /\ rooms = earlier

\* --------------------------- claims on the classifier and the policies
\* C15 (as stated): the shape_type is a function of the vertex count n only,
\* "rectangle" for n = 4, "l_shape" for any other n <= 8, "complex" for
\* n > 8, in both classes alike.
C15_SameCutoff ==
    cpc = "returned" =>
       \A v \in Variants :
          shape_types[v] = IF num_vertices = 4 THEN "rectangle"
                           ELSE IF num_vertices <= 8 THEN "l_shape" ELSE "complex"

\* C15 (amended): the shape_type is a function of n only; n = 4 gives
\* "rectangle" in both classes; any other n gives "l_shape" up to 8 in the
\* converter and up to 6 in the detector, "complex" above; so the two classes
\* agree on every n but 7 and 8.
C15_CutoffPerVariant ==
    cpc = "returned" =>
       /\ shape_types["converter"] =
             IF num_vertices = 4 THEN "rectangle"
             ELSE IF num_vertices <= 8 THEN "l_shape" ELSE "complex"
       /\ shape_types["detector"] =
             IF num_vertices = 4 THEN "rectangle"
             ELSE IF num_vertices <= 6 THEN "l_shape" ELSE "complex"
       /\ (shape_types["converter"] = shape_types["detector"]) <=> (num_vertices \notin {7, 8})

C15_Witness ==
    /\ cpc = "returned" /\ num_vertices = 7
    /\ shape_types["converter"] = "l_shape" /\ shape_types["detector"] = "complex"

\* C16: the converter's confidence depends on the vertex count only: 0.95 for
\* 4 vertices, 0.85 for any other count up to 6, 0.75 for 7 or 8, 0.65 above;
\* it is the same for every area, it is 0.95 exactly when the shape_type is
\* "rectangle", and every count but 4 scores lower than 4 does.
C16_PolicyA ==
    cpc = "returned" =>
       /\ confidences["converter"] =
             IF num_vertices = 4 THEN 95
             ELSE IF num_vertices <= 6 THEN 85
             ELSE IF num_vertices <= 8 THEN 75 ELSE 65
       /\ \A a \in Areas : ConverterConfidence(num_vertices, a) = confidences["converter"]
       /\ (confidences["converter"] = 95) <=> (shape_types["converter"] = "rectangle")
       /\ num_vertices # 4 => confidences["converter"] < ConverterConfidence(4, area)

C16_Witness ==
    /\ cpc = "returned" /\ num_vertices = 3 /\ area = 100000
    /\ confidences["converter"] = 85 /\ shape_types["converter"] = "l_shape"

\* 5000 times the exact value, in hundredths, of
\* 0.7 * min(a / 50000, 1) + 0.3 * (1 - min(n, 20) / 20 * 0.3).
Blend5000(a, n) == 7 * Min(a, 50000) + 150000 - 2250 * Min(n, 20)

\* C17: the detector's confidence is the blend
\* 0.7 * min(area / 50000, 1) + 0.3 * (1 - min(vertices, 20) / 20 * 0.3)
\* rounded to 2 decimals (within half a hundredth and the rounding of the seven
\* float operations of the exact value); it lies in [0, 1], does not decrease
\* when the area grows and does not increase when the vertex count grows.
C17_PolicyB ==
    cpc = "returned" =>
       LET c == confidences["detector"]
       IN  /\ 0 <= c /\ c <= 100
           /\ Abs(5000 * c - Blend5000(area, num_vertices)) * Pow2(MantBits)
                 <= 2500 * Pow2(MantBits) + 7 * 500000
           /\ \A a \in Areas : a >= area => DetectorConfidence(a, num_vertices) >= c
           /\ \A n \in 0..MaxVertices :
                 n >= num_vertices => DetectorConfidence(area, n) <= c

C17_Witness ==
    /\ cpc = "returned" /\ area = 50001 /\ num_vertices = 0 /\ confidences["detector"] = 100

\* ------------------------------------------------------------------ C18
\* C18: in the list a call returns, the room at position n (from 1) has the
\* id "room_{n:03d}", also when components were filtered out and when the
\* list has been sorted by area.
C18_IdIsPosition == gpc = "returned" => \A n \in 1..Len(rooms) : rooms[n].id = n

\* ------------------------------------------------------------------ C19
\* C19: the detector returns its rooms in non-increasing order of
\* area_pixels, and rooms of equal area in ascending order of their label.
C19_SortedByArea ==
    (gpc = "returned" /\ variant = "detector") =>
        \A m \in 1..Len(rooms), n \in 1..Len(rooms) :
            m < n => \/ rooms[m].area_pixels > rooms[n].area_pixels
                     \/ /\ rooms[m].area_pixels = rooms[n].area_pixels
                        /\ rooms[m].label < rooms[n].label

\* The detector returned two rooms of equal area.
C19_Witness ==
    /\ FirstReturned /\ variant = "detector" /\ Len(rooms) = 2
    /\ rooms[1].area_pixels = rooms[2].area_pixels

\* ------------------------------------------------------------------ C20
\* The pixels <<x, y>> with x in x1..x2 and y in y1..y2.
Block(x1, x2, y1, y2) == (x1..x2) \X (y1..y2)

\* The four quadrants the two walls of the scenario leave free.
Quadrants == {Block(0, 49, 0, 49), Block(56, 99, 0, 49),
              Block(0, 49, 56, 99), Block(56, 99, 56, 99)}

\* The scenario as stated: both walls, the 3 x 3 kernel.
PlusSign == Len(walls) = 2 /\ kernel_size = 3 /\ gpc = "returned"

NoWalls == walls = <<>> /\ width > 0 /\ height > 0

C22_ConfigRejected ==
    (NoWalls /\ (kernel_size < 0 \/ kernel_size % 2 = 0)) => gpc # "returned"

\* ------------------------------------------------------------------ C23
\* C23: with a width or a height of 0 or less no grid is created and no list
\* of rooms is returned: the call ends with an error before _draw_walls.
C23_ShapeRejected ==
    (gpc # "idle" /\ (width <= 0 \/ height <= 0)) => gpc \in {"new", "create", "raised"}


\* ------------------------------------------------------------------ C24
\* The labels that pass the area filter, and those of them without a pixel
\* in labels.
PassesFilter(l) ==
    stats[l].area >= min_room_area /\ 10 * stats[l].area <= 9 * width * height
NoContour(l) == PassesFilter(l) /\ labels[l] = {}

\* C24: a label that passes the area filter and has no contour gives no
\* room; every other label that passes the filter still gives its room; and
\* the ids of the rooms are the numbers from 1 to their count, in the order
\* in which the rooms were appended.
C24_SkipsNoContour ==
    /\ gpc \in {"extract", "returned"} =>
          /\ \A k \in 1..Len(rooms) : ~NoContour(rooms[k].label)
          /\ {rooms[k].id : k \in 1..Len(rooms)} = 1..Len(rooms)
          /\ \A k, m \in 1..Len(rooms) :
                rooms[k].label < rooms[m].label <=> rooms[k].id < rooms[m].id
    /\ gpc = "returned" =>
          {rooms[k].label : k \in 1..Len(rooms)}
              = {l \in 1..Len(labels) : PassesFilter(l) /\ labels[l] # {}}

C24_Witness ==
    /\ gpc = "returned" /\ Len(labels) = 2
    /\ NoContour(1) /\ labels[2] # {}
    /\ Len(rooms) = 1 /\ rooms[1].label = 2 /\ rooms[1].id = 1


\* ------------------------------------------------------------------ C25
\* C25: every room of the list has a polygon of at least 3 vertices, and its
\* num_vertices is the length of its polygon.
C25_AtLeastThree ==
    RoomsOfMask =>
        \A k \in 1..Len(rooms) :
            /\ rooms[k].num_vertices = Len(rooms[k].polygon_vertices)
            /\ Len(rooms[k].polygon_vertices) >= 3


\* ------------------------------------------------------------------ C26
\* What a request with min_room_area m gets when it is the only one a fresh
\* process serves.
Alone(m) ==
    Detect("converter", IF Truthy(m) THEN m[1] ELSE DefaultMinArea, ApiWidth, ApiHeight,
           ApiWalls, DefaultKernelSize, <<>>)

\* C26: however the steps of the requests interleave, the global converter
\* keeps the fields it was created with, and every finished request has the
\* rooms it gets when it runs alone.
C26_Isolated ==
    /\ converter # <<>> =>
          converter = <<GeometricRoomConverter(DefaultMinArea, DefaultKernelSize,
                                               EpsilonFactor)>>
    /\ \A r \in DOMAIN requests :
          requests[r].rpc = "done" => requests[r].rooms = Alone(requests[r].min_room_area)

C26_Witness ==
    /\ \A r \in DOMAIN requests : requests[r].rpc = "done"
    /\ requests[1].min_room_area = <<2 * ApiHeight>> /\ Len(requests[1].rooms) = 2
    /\ requests[2].min_room_area = <<>> /\ requests[2].rooms = <<>>


\* ------------------------------------------------------------------ C27
\* The point p is no farther than epsilon from the segment from a to b, for
\* epsilon = ef * len: the nearest point of the segment is a or b when p
\* projects outside it, and the foot of the perpendicular otherwise.
WithinEps(p, a, b, ef, len) ==
    LET dx == b[1] - a[1]
        dy == b[2] - a[2]
        t  == (p[1] - a[1]) * dx + (p[2] - a[2]) * dy
        d  == (p[1] - a[1]) * dy - (p[2] - a[2]) * dx
        SquaredTo(q) == (p[1] - q[1]) * (p[1] - q[1]) + (p[2] - q[2]) * (p[2] - q[2])
    IN  IF t <= 0 THEN LeEps(SquaredTo(a), 1, ef, len)
        ELSE IF t >= dx * dx + dy * dy THEN LeEps(SquaredTo(b), 1, ef, len)
        ELSE LeEps(d * d, dx * dx + dy * dy, ef, len)

\* C27: every vertex of a room's polygon is a point of the outer contour
\* traced around the room's component, and every point of that contour is
\* no farther than epsilon = epsilon_factor * perimeter from the polygon,
\* the closed line through the polygon's vertices.
C27_Fidelity ==
    gpc \in {"extract", "returned"} =>
        \A k \in 1..Len(rooms) :
            LET Faithful(c, poly, len) ==
                    /\ \A n \in 1..Len(poly) : \E m \in 1..Len(c) : poly[n] = c[m]
                    /\ \A m \in 1..Len(c) : \E n \in 1..Len(poly) :
                          WithinEps(c[m], poly[n], poly[(n % Len(poly)) + 1],
                                    EpsilonFactor, len)
                FaithfulTo(c, poly) == Faithful(c, poly, arcLength(c))
            IN  FaithfulTo(findContours(labels[rooms[k].label]),
                           rooms[k].polygon_vertices)


\* ------------------------------------------------------------------ C28
\* C28: the model is called with the argument confidence_threshold of
\* detect whenever one is given, 0.0 included, and with the instance's
\* threshold when the argument is None.
C28_PerCallThreshold ==
    wpc = "returned" =>
        model_conf = IF threshold_arg = <<>> THEN <<confidence_threshold>>
                     ELSE threshold_arg


\* ------------------------------------------------------------------ C29
\* C29: when a warmup event has been answered with status 200 and
\* model_loaded true, the model of the shared inference handler is loaded;
\* and the model is loaded at most once.
C29_WarmupLoads ==
    /\ (/\ event = <<"warmup">>
        /\ response = <<[statusCode |-> 200, success |-> TRUE, model_loaded |-> TRUE]>>)
           => (inference_handler # <<>> /\ inference_handler[1].model # <<>>)
    /\ loads <= 1


\* ------------------------------------------------------------------ C30
\* The detections of s with confidence c, in the order of s.
WithConf(s, c) == SelectSeq(s, LAMBDA d : d.confidence = c)

\* s is t by descending confidence, equal confidences in the order of t.
StableByConf(s, t) ==
    /\ Len(s) = Len(t)
    /\ \A k \in 1..(Len(s) - 1) : s[k].confidence >= s[k + 1].confidence
    /\ \A k \in 1..Len(t) : WithConf(s, t[k].confidence) = WithConf(t, t[k].confidence)

\* The indices of sorted_detections not in the first k clusters.
Unconsumed(k) ==
    (1..Len(sorted_detections)) \ UNION {clusters[m] : m \in 1..k}

\* C30: sorted_detections is the input by descending confidence, ties in
\* input order; the seed of each cluster is the first detection of that
\* list that no earlier cluster holds; and the cluster holds, besides its
\* seed, exactly the later detections no earlier cluster holds whose IoU
\* with the seed's own box reaches the threshold.
C30_SeedDecides ==
    (pc \in {"loop", "done"} /\ Len(sorted_detections) > 1) =>
        /\ StableByConf(sorted_detections, detections)
        /\ \A k \in 1..Len(clusters) :
              LET seed == SetMin(Unconsumed(k - 1))
              IN  clusters[k] =
                      {seed} \cup
                      {j \in Unconsumed(k - 1) :
                          /\ j > seed
                          /\ IouAtLeast(_calculate_iou_pixels(
                                            sorted_detections[seed].bounding_box_pixels,
                                            sorted_detections[j].bounding_box_pixels),
                                        merge_threshold)}

\* A cluster of two whose union box overlaps a third detection enough, which
\* the seed's own box does not: the third starts a cluster of its own.
C30_Witness ==
    /\ pc = "done" /\ Len(sorted_detections) = 3 /\ Len(clusters) = 2
    /\ clusters[1] = {1, 2} /\ clusters[2] = {3}
    /\ IouAtLeast(_calculate_iou_pixels(merged[1].bounding_box_pixels,
                                        sorted_detections[3].bounding_box_pixels),
                  merge_threshold)

=========================================================================
